---- MODULE Spec2Model ----
(***************************************************************************)
(* A model of the xhttp2 server connection: the frame codec                *)
(* (src/frame/*.rs), the inbound FrameStream, the outbound FrameSink and   *)
(* the Connection state machine (src/connection.rs).                       *)
(*                                                                         *)
(* Bytes are naturals 0..255, byte strings are sequences.  A u32 read from *)
(* the wire is kept as a record [hi, lo]: hi is bit 31, lo the low 31 bits.*)
(* An operation's outcome is "Ok", "NotReady", "Abort" (a panic: the       *)
(* unimplemented!/expect/index paths of the code) or the name of the       *)
(* ErrorKind it returns.                                                   *)
(***************************************************************************)
EXTENDS Integers, Sequences, FiniteSets, TLC

VARIABLES
    is_settings_received,  \* Connection.is_settings_received
    events,                \* Connection.events (VecDeque<Event>)
    streams,               \* Connection.streams: the ids with a StreamHandle
    next_peer_stream_id,   \* Connection.next_peer_stream_id
    sink,                  \* Connection.sink (FrameSink: state, write in progress, queue)
    stream,                \* Connection.stream (FrameStream: max_frame_size, ReadFrame future)
    channels,              \* per stream id, the items sent on the StreamHandle's channel
    inbound,               \* transport, read side: bytes arrived and not yet read
    wire,                  \* bytes the peer has sent that have not arrived yet
    written,               \* transport, write side: bytes accepted by the writer
    consumed,              \* number of bytes the reader has taken from the transport
    accept,                \* Accept.future (ReadPreface): the bytes of the preface read
    status,                \* "accepting" (Accept is pending), "refused" (Accept gave an
                           \* error), "running" (the Connection exists), or "aborted"
                           \* once a panic has unwound the thread
    ret,                   \* what the last Connection::poll returned
    returned,              \* the events Connection::poll has returned, in order
    failed,                \* a Connection::poll has returned Err
    calls,                 \* log of handle_frame calls (state before, state after, outcome)
    headers,               \* log of the frame headers ReadFrame::poll has decided on
    menu,                  \* what the peer chooses its sends from in this run
    nsent,                 \* number of sends the peer has made
    pinged                 \* the data Connection::ping was called with

vars == <<is_settings_received, events, streams, next_peer_stream_id, sink, stream,
          channels, inbound, wire, written, consumed, accept, status, ret, returned,
          failed, calls, headers, menu, nsent, pinged>>

---------------------------------------------------------------------------
(* Bounds of the model *)

MaxSends == 2       \* sends of the peer in one run
Chunk == 5          \* bytes that arrive at once when a frame arrives in pieces
WChunk == 10        \* bytes a slow writer accepts during one poll
WAll == 64          \* bytes a fast writer accepts during one poll

---------------------------------------------------------------------------
(* Constants of the program *)

FRAME_TYPE_DATA == 0
FRAME_TYPE_HEADERS == 1
FRAME_TYPE_PRIORITY == 2
FRAME_TYPE_RST_STREAM == 3
FRAME_TYPE_SETTINGS == 4
FRAME_TYPE_PUSH_PROMISE == 5
FRAME_TYPE_PING == 6
FRAME_TYPE_GOAWAY == 7
FRAME_TYPE_WINDOW_UPDATE == 8
FRAME_TYPE_CONTINUATION == 9

FLAG_ACK == 1
FLAG_END_STREAM == 1
FLAG_END_HEADERS == 4
FLAG_PADDED == 8
FLAG_PRIORITY == 32

SETTINGS_HEADER_TABLE_SIZE == 1
SETTINGS_ENABLE_PUSH == 2
SETTINGS_MAX_CONCURRENT_STREAMS == 3
SETTINGS_INITIAL_WINDOW_SIZE == 4
SETTINGS_MAX_FRAME_SIZE == 5
SETTINGS_MAX_HEADER_LIST_SIZE == 6

DEFAULT_MAX_FRAME_SIZE == 16384
FRAME_HEADER_LEN == 9
PING_PAYLOAD_LEN == 8
PREFACE_LEN == 24

\* b"PRI * HTTP/2.0\r\n\r\nSM\r\n\r\n"
PREFACE_BYTES ==
    <<80, 82, 73, 32, 42, 32, 72, 84, 84, 80, 47, 50, 46, 48, 13, 10, 13, 10,
      83, 77, 13, 10, 13, 10>>

---------------------------------------------------------------------------
(* Byte strings and big-endian integers (byteorder::BigEndian) *)

Min(a, b) == IF a <= b THEN a ELSE b

Take(s, n) == SubSeq(s, 1, Min(n, Len(s)))

Drop(s, n) == SubSeq(s, Min(n, Len(s)) + 1, Len(s))

\* flags & flag != 0, for a one-bit flag
HasFlag(flags, flag) == (flags \div flag) % 2 = 1

U16BE(n) == <<(n \div 256) % 256, n % 256>>

U24BE(n) == <<(n \div 65536) % 256, (n \div 256) % 256, n % 256>>

\* BigEndian::write_u32 of a value below 2^31
U32BE(n) == <<(n \div 16777216) % 256, (n \div 65536) % 256, (n \div 256) % 256, n % 256>>

ReadU16(b) == (b[1] * 256) + b[2]

ReadU24(b) == (b[1] * 65536) + (b[2] * 256) + b[3]

\* BigEndian::read_u32, as bit 31 and the low 31 bits
ReadU32(b) ==
    [hi |-> b[1] \div 128,
     lo |-> ((b[1] % 128) * 16777216) + (b[2] * 65536) + (b[3] * 256) + b[4]]

\* v <= n for a u32 v and n < 2^31
U32Le(v, n) == v.hi = 0 /\ v.lo <= n

\* n <= v for a u32 v and n < 2^31
U32Ge(v, n) == v.hi = 1 \/ v.lo >= n

---------------------------------------------------------------------------
(* FrameHeader: the nine-octet frame prefix *)

NoHeader == [payload_length |-> 0, frame_type |-> 0, flags |-> 0, stream_id |-> 0]

\* FrameHeader::write_into: the nine bytes written for a header
FrameHeader_write_into(h) ==
    U24BE(h.payload_length) \o <<h.frame_type, h.flags>> \o U32BE(h.stream_id)

\* ReadFrameHeader::poll without the mask: a stream id with bit 31 set, which
\* is the u32's value less 2^32 when read as a signed 32-bit integer
ReadFrameHeader_parse_Unmasked(b) ==
    [payload_length |-> ReadU24(SubSeq(b, 1, 3)),
     frame_type |-> b[4],
     flags |-> b[5],
     stream_id |-> IF ReadU32(SubSeq(b, 6, 9)).hi = 1
                   THEN (ReadU32(SubSeq(b, 6, 9)).lo - 2147483647) - 1
                   ELSE ReadU32(SubSeq(b, 6, 9)).lo]

\* ReadFrameHeader::poll: the header parsed from nine bytes, reserved bit masked
ReadFrameHeader_parse(b) ==
    [payload_length |-> ReadU24(SubSeq(b, 1, 3)),
     frame_type |-> b[4],
     flags |-> b[5],
     stream_id |-> ReadU32(SubSeq(b, 6, 9)).lo]

\* StreamId::new of a u32: Ok with the id, or the ErrorKind
StreamId_new(id) ==
    IF id.hi # 0 THEN [res |-> "InternalError", id |-> 0] ELSE [res |-> "Ok", id |-> id.lo]

\* StreamId::is_connection_control_stream
is_connection_control_stream(id) == id = 0

\* StreamId::is_client_initiated_stream
is_client_initiated_stream(id) == id % 2 = 1

\* StreamId::is_server_initiated_stream
is_server_initiated_stream(id) == id % 2 = 0

---------------------------------------------------------------------------
(* Setting: one six-byte entry of a SETTINGS payload *)

U32Bytes(v) ==
    <<(v.hi * 128) + ((v.lo \div 16777216) % 128), (v.lo \div 65536) % 256,
      (v.lo \div 256) % 256, v.lo % 256>>

\* Setting::from_bytes: "Some" with the setting, "None" for an unknown id,
\* or the ErrorKind of a rejected value
Setting_from_bytes(b) ==
    LET id == ReadU16(SubSeq(b, 1, 2))
        value == ReadU32(SubSeq(b, 3, 6))
        some(kind) == [res |-> "Some", setting |-> [kind |-> kind, value |-> value]]
        bad(e) == [res |-> e, setting |-> [kind |-> "None", value |-> value]]
    IN  CASE id = SETTINGS_HEADER_TABLE_SIZE -> some("HeaderTableSize")
          [] id = SETTINGS_ENABLE_PUSH ->
                IF U32Le(value, 1) THEN some("EnablePush") ELSE bad("ProtocolError")
          [] id = SETTINGS_MAX_CONCURRENT_STREAMS -> some("MaxConcurrentStreams")
          [] id = SETTINGS_INITIAL_WINDOW_SIZE ->
                IF U32Le(value, 2147483647) THEN some("InitialWindowSize")
                ELSE bad("FlowControlError")
          [] id = SETTINGS_MAX_FRAME_SIZE ->
                \* `value <= 1 << 24 - 1` parses as 1 << (24 - 1)
                IF ~U32Ge(value, 16384) THEN bad("ProtocolError")
                ELSE IF ~U32Le(value, 8388608) THEN bad("ProtocolError")
                ELSE some("MaxFrameSize")
          [] id = SETTINGS_MAX_HEADER_LIST_SIZE -> some("MaxHeaderListSize")
          [] OTHER -> bad("None")

SettingId(kind) ==
    CASE kind = "HeaderTableSize" -> SETTINGS_HEADER_TABLE_SIZE
      [] kind = "EnablePush" -> SETTINGS_ENABLE_PUSH
      [] kind = "MaxConcurrentStreams" -> SETTINGS_MAX_CONCURRENT_STREAMS
      [] kind = "InitialWindowSize" -> SETTINGS_INITIAL_WINDOW_SIZE
      [] kind = "MaxFrameSize" -> SETTINGS_MAX_FRAME_SIZE
      [] kind = "MaxHeaderListSize" -> SETTINGS_MAX_HEADER_LIST_SIZE

\* Setting::to_bytes
Setting_to_bytes(s) == U16BE(SettingId(s.kind)) \o U32Bytes(s.value)

---------------------------------------------------------------------------
(* Frames.  A frame is a record with a "type" field and the fields of the  *)
(* Rust struct of that type.                                               *)

NoFrame == [type |-> "None"]

\* Option<u8>::None; an Option<Priority> is <<>> or <<p>>
None == -1

PingFrame(ack, data) == [type |-> "Ping", ack |-> ack, data |-> data]

\* SettingsFrame::Syn(settings)
SettingsSyn(settings) == [type |-> "Settings", is_ack |-> FALSE, settings |-> settings]

\* SettingsFrame::Ack
SettingsAck == [type |-> "Settings", is_ack |-> TRUE, settings |-> <<>>]

\* PingFrame::frame_header
PingFrame_frame_header(f) ==
    [payload_length |-> PING_PAYLOAD_LEN,
     frame_type |-> FRAME_TYPE_PING,
     flags |-> 0,
     stream_id |-> 0]

\* PingFrame::write_into: the payload bytes
PingFrame_write_into(f) == f.data

\* SettingsFrame::payload_len
SettingsFrame_payload_len(f) == IF f.is_ack THEN 0 ELSE Len(f.settings) * 6

\* SettingsFrame::frame_header
SettingsFrame_frame_header(f) ==
    [payload_length |-> SettingsFrame_payload_len(f),
     frame_type |-> FRAME_TYPE_SETTINGS,
     flags |-> IF f.is_ack THEN FLAG_ACK ELSE 0,
     stream_id |-> 0]

RECURSIVE ConcatSettings(_)
ConcatSettings(ss) ==
    IF ss = <<>> THEN <<>> ELSE Setting_to_bytes(Head(ss)) \o ConcatSettings(Tail(ss))

\* SettingsFrame::write_into: the payload bytes
SettingsFrame_write_into(f) == ConcatSettings(f.settings)

\* PingFrame::payload_len
PingFrame_payload_len(f) == PING_PAYLOAD_LEN

\* n zero bytes: &[0; 255][0..n]
Zeros(n) == [i \in 1..n |-> 0]

\* padding_len.map_or(0, |x| x as usize + 1): the pad-length octet and the padding
PaddedBy(padding_len) == IF padding_len = None THEN 0 ELSE padding_len + 1

\* the write pattern Option<u8>: the octet when it is Some
PadOctet(padding_len) == IF padding_len = None THEN <<>> ELSE <<padding_len>>

\* the padding slice of the write patterns
Padding(padding_len) == IF padding_len = None THEN <<>> ELSE Zeros(padding_len)

Bit(b, flag) == IF b THEN flag ELSE 0

\* Priority::to_bytes that leaves bit 31 clear
Priority_to_bytes_NoExclusive(p) ==
    U32Bytes([hi |-> 0, lo |-> p.stream_dependency]) \o <<p.weight>>

\* Priority::to_bytes
Priority_to_bytes(p) ==
    U32Bytes([hi |-> IF p.is_exclusive THEN 1 ELSE 0, lo |-> p.stream_dependency])
        \o <<p.weight>>

\* Error::as_code: the code of an error kind (RFC 7540, section 7)
Error_as_code(kind) ==
    CASE kind = "NoError" -> 0
      [] kind = "ProtocolError" -> 1
      [] kind = "InternalError" -> 2
      [] kind = "FlowControlError" -> 3
      [] kind = "SettingsTimeout" -> 4
      [] kind = "StreamClosed" -> 5
      [] kind = "FrameSizeError" -> 6
      [] kind = "RefusedStream" -> 7
      [] kind = "Cancel" -> 8
      [] kind = "CompressionError" -> 9
      [] kind = "ConnectError" -> 10
      [] kind = "EnhanceYourCalm" -> 11
      [] kind = "InadequateSecurity" -> 12
      [] kind = "Http11Required" -> 13

\* DataFrame::payload_len
DataFrame_payload_len(f) == Len(f.data) + PaddedBy(f.padding_len)

\* DataFrame::frame_header
DataFrame_frame_header(f) ==
    [payload_length |-> DataFrame_payload_len(f),
     frame_type |-> FRAME_TYPE_DATA,
     flags |-> Bit(f.end_stream, FLAG_END_STREAM) + Bit(f.padding_len # None, FLAG_PADDED),
     stream_id |-> f.stream_id]

\* DataFrame::write_into: the pattern (padding_len, data, padding)
DataFrame_write_into(f) == PadOctet(f.padding_len) \o f.data \o Padding(f.padding_len)

\* HeadersFrame::payload_len that leaves the priority out
HeadersFrame_payload_len_NoPriority(f) == Len(f.fragment) + PaddedBy(f.padding_len)

\* HeadersFrame::payload_len
HeadersFrame_payload_len(f) ==
    Len(f.fragment) + PaddedBy(f.padding_len) + (IF f.priority # <<>> THEN 5 ELSE 0)

\* HeadersFrame::frame_header
HeadersFrame_frame_header(f) ==
    [payload_length |-> HeadersFrame_payload_len(f),
     frame_type |-> FRAME_TYPE_HEADERS,
     flags |-> Bit(f.end_stream, FLAG_END_STREAM) + Bit(f.end_headers, FLAG_END_HEADERS)
                 + Bit(f.padding_len # None, FLAG_PADDED)
                 + Bit(f.priority # <<>>, FLAG_PRIORITY),
     stream_id |-> f.stream_id]

\* HeadersFrame::write_into: the pattern (padding_len, priority, fragment, padding)
HeadersFrame_write_into(f) ==
    PadOctet(f.padding_len)
        \o (IF f.priority # <<>> THEN Priority_to_bytes(f.priority[1]) ELSE <<>>)
        \o f.fragment \o Padding(f.padding_len)

\* PushPromiseFrame::payload_len
PushPromiseFrame_payload_len(f) == 4 + Len(f.fragment) + PaddedBy(f.padding_len)

\* PushPromiseFrame::frame_header
PushPromiseFrame_frame_header(f) ==
    [payload_length |-> PushPromiseFrame_payload_len(f),
     frame_type |-> FRAME_TYPE_PUSH_PROMISE,
     flags |-> Bit(f.end_headers, FLAG_END_HEADERS) + Bit(f.padding_len # None, FLAG_PADDED),
     stream_id |-> f.stream_id]

\* PushPromiseFrame::write_into: the pattern (padding_len, promise_stream_id,
\* fragment, padding)
PushPromiseFrame_write_into(f) ==
    PadOctet(f.padding_len) \o U32BE(f.promise_stream_id)
        \o f.fragment \o Padding(f.padding_len)

\* PriorityFrame::payload_len
PriorityFrame_payload_len(f) == 5

\* PriorityFrame::frame_header
PriorityFrame_frame_header(f) ==
    [payload_length |-> PriorityFrame_payload_len(f),
     frame_type |-> FRAME_TYPE_PRIORITY, flags |-> 0, stream_id |-> f.stream_id]

\* PriorityFrame::write_into
PriorityFrame_write_into(f) == Priority_to_bytes(f.priority)

\* RstStreamFrame::payload_len
RstStreamFrame_payload_len(f) == 4

\* RstStreamFrame::frame_header
RstStreamFrame_frame_header(f) ==
    [payload_length |-> RstStreamFrame_payload_len(f),
     frame_type |-> FRAME_TYPE_RST_STREAM, flags |-> 0, stream_id |-> f.stream_id]

\* RstStreamFrame::write_into
RstStreamFrame_write_into(f) == U32BE(Error_as_code(f.error))

\* GoawayFrame::payload_len
GoawayFrame_payload_len(f) == 4 + 4 + Len(f.debug_data)

\* GoawayFrame::frame_header
GoawayFrame_frame_header(f) ==
    [payload_length |-> GoawayFrame_payload_len(f),
     frame_type |-> FRAME_TYPE_GOAWAY, flags |-> 0, stream_id |-> 0]

\* GoawayFrame::write_into: the pattern (last_stream_id, code, debug_data)
GoawayFrame_write_into(f) ==
    U32BE(f.last_stream_id) \o U32BE(Error_as_code(f.error)) \o f.debug_data

\* WindowUpdateFrame::payload_len
WindowUpdateFrame_payload_len(f) == 4

\* WindowUpdateFrame::frame_header
WindowUpdateFrame_frame_header(f) ==
    [payload_length |-> WindowUpdateFrame_payload_len(f),
     frame_type |-> FRAME_TYPE_WINDOW_UPDATE, flags |-> 0, stream_id |-> f.stream_id]

\* WindowUpdateFrame::write_into
WindowUpdateFrame_write_into(f) == U32BE(f.window_size_increment)

\* ContinuationFrame::payload_len
ContinuationFrame_payload_len(f) == Len(f.payload)

\* ContinuationFrame::frame_header
ContinuationFrame_frame_header(f) ==
    [payload_length |-> ContinuationFrame_payload_len(f),
     frame_type |-> FRAME_TYPE_CONTINUATION,
     flags |-> Bit(f.end_headers, FLAG_END_HEADERS),
     stream_id |-> f.stream_id]

\* ContinuationFrame::write_into
ContinuationFrame_write_into(f) == f.payload

\* Frame::payload_len
Frame_payload_len(f) ==
    CASE f.type = "Continuation" -> ContinuationFrame_payload_len(f)
      [] f.type = "Data" -> DataFrame_payload_len(f)
      [] f.type = "Goaway" -> GoawayFrame_payload_len(f)
      [] f.type = "Headers" -> HeadersFrame_payload_len(f)
      [] f.type = "Ping" -> PingFrame_payload_len(f)
      [] f.type = "Priority" -> PriorityFrame_payload_len(f)
      [] f.type = "RstStream" -> RstStreamFrame_payload_len(f)
      [] f.type = "PushPromise" -> PushPromiseFrame_payload_len(f)
      [] f.type = "Settings" -> SettingsFrame_payload_len(f)
      [] f.type = "WindowUpdate" -> WindowUpdateFrame_payload_len(f)

\* Frame::frame_header
Frame_frame_header(f) ==
    CASE f.type = "Continuation" -> ContinuationFrame_frame_header(f)
      [] f.type = "Data" -> DataFrame_frame_header(f)
      [] f.type = "Goaway" -> GoawayFrame_frame_header(f)
      [] f.type = "Headers" -> HeadersFrame_frame_header(f)
      [] f.type = "Ping" -> PingFrame_frame_header(f)
      [] f.type = "Priority" -> PriorityFrame_frame_header(f)
      [] f.type = "RstStream" -> RstStreamFrame_frame_header(f)
      [] f.type = "PushPromise" -> PushPromiseFrame_frame_header(f)
      [] f.type = "Settings" -> SettingsFrame_frame_header(f)
      [] f.type = "WindowUpdate" -> WindowUpdateFrame_frame_header(f)

\* the payload writer WriteFrame::poll enters after the header (Phase::B)
WriteFramePayload(f) ==
    CASE f.type = "Continuation" -> ContinuationFrame_write_into(f)
      [] f.type = "Data" -> DataFrame_write_into(f)
      [] f.type = "Goaway" -> GoawayFrame_write_into(f)
      [] f.type = "Headers" -> HeadersFrame_write_into(f)
      [] f.type = "Ping" -> PingFrame_write_into(f)
      [] f.type = "Priority" -> PriorityFrame_write_into(f)
      [] f.type = "PushPromise" -> PushPromiseFrame_write_into(f)
      [] f.type = "RstStream" -> RstStreamFrame_write_into(f)
      [] f.type = "Settings" -> SettingsFrame_write_into(f)
      [] f.type = "WindowUpdate" -> WindowUpdateFrame_write_into(f)

\* Frame::write_into: every byte WriteFrame writes for f, the header (phase A)
\* and then the payload (phase B)
Frame_write_into(f) ==
    FrameHeader_write_into(Frame_frame_header(f)) \o WriteFramePayload(f)

---------------------------------------------------------------------------
(* Decoded values *)

\* Error::from_code, on a u32 code
\* Error::from_code looking at the low octet of the code only
Error_from_code_LowOctet(code) ==
    CASE code.lo % 256 = 0 -> "NoError"
      [] code.lo % 256 = 1 -> "ProtocolError"
      [] code.lo % 256 = 2 -> "InternalError"
      [] code.lo % 256 = 3 -> "FlowControlError"
      [] code.lo % 256 = 4 -> "SettingsTimeout"
      [] code.lo % 256 = 5 -> "StreamClosed"
      [] code.lo % 256 = 6 -> "FrameSizeError"
      [] code.lo % 256 = 7 -> "RefusedStream"
      [] code.lo % 256 = 8 -> "Cancel"
      [] code.lo % 256 = 9 -> "CompressionError"
      [] code.lo % 256 = 10 -> "ConnectError"
      [] code.lo % 256 = 11 -> "EnhanceYourCalm"
      [] code.lo % 256 = 12 -> "InadequateSecurity"
      [] code.lo % 256 = 13 -> "Http11Required"
      [] OTHER -> "InternalError"

Error_from_code(code) ==
    IF code.hi = 1 THEN "InternalError"
    ELSE CASE code.lo = 0 -> "NoError"
           [] code.lo = 1 -> "ProtocolError"
           [] code.lo = 2 -> "InternalError"
           [] code.lo = 3 -> "FlowControlError"
           [] code.lo = 4 -> "SettingsTimeout"
           [] code.lo = 5 -> "StreamClosed"
           [] code.lo = 6 -> "FrameSizeError"
           [] code.lo = 7 -> "RefusedStream"
           [] code.lo = 8 -> "Cancel"
           [] code.lo = 9 -> "CompressionError"
           [] code.lo = 10 -> "ConnectError"
           [] code.lo = 11 -> "EnhanceYourCalm"
           [] code.lo = 12 -> "InadequateSecurity"
           [] code.lo = 13 -> "Http11Required"
           [] OTHER -> "InternalError"

\* Priority::from_bytes
Priority_from_bytes(b) ==
    LET temp == ReadU32(SubSeq(b, 1, 4))
    IN  [is_exclusive |-> temp.hi = 1,
         stream_dependency |-> temp.lo,
         weight |-> b[5]]

\* the chunks(6) loop of ReadSettingsFrame::poll: the settings decoded from a
\* payload, in order, unknown ids skipped; res is "Ok" or the first error
RECURSIVE DecodeSettings(_)
DecodeSettings(bytes) ==
    IF bytes = <<>> THEN [res |-> "Ok", settings |-> <<>>]
    ELSE LET one == Setting_from_bytes(SubSeq(bytes, 1, 6))
             rest == DecodeSettings(Drop(bytes, 6))
         IN  IF one.res \notin {"Some", "None"} THEN [res |-> one.res, settings |-> <<>>]
             ELSE IF rest.res # "Ok" THEN rest
             ELSE IF one.res = "Some"
                  THEN [res |-> "Ok", settings |-> <<one.setting>> \o rest.settings]
                  ELSE rest

---------------------------------------------------------------------------
(* ReadFrame: the future that reads one frame.  Its stage names the        *)
(* ReadExact in progress: "Header" is Phase::A of ReadFrame, the others    *)
(* are the phases of the payload reader of the frame's type.  "Gone" is a  *)
(* future that has completed and given its reader away.                    *)

\* Frame::read_from(reader, max_frame_size); start is the transport offset
\* at which the frame begins
NewReadFrame(max_frame_size, start) ==
    [stage |-> "Header", max_frame_size |-> max_frame_size, start |-> start,
     header |-> NoHeader, got |-> <<>>, need |-> FRAME_HEADER_LEN,
     padding_len |-> None, priority |-> <<>>, read_bytes |-> 0,
     promise_stream_id |-> 0]

Enter(stage, need) == [res |-> "Ok", stage |-> stage, need |-> need]

Reject(kind) == [res |-> kind, stage |-> "Gone", need |-> 0]

\* DataFrame::read_from
DataFrame_read_from(h) ==
    IF is_connection_control_stream(h.stream_id) THEN Reject("ProtocolError")
    ELSE IF HasFlag(h.flags, FLAG_PADDED) THEN Enter("DataPad", 1)
    ELSE Enter("DataBody", h.payload_length)

\* HeadersFrame::read_from
HeadersFrame_read_from(h) ==
    IF is_connection_control_stream(h.stream_id) THEN Reject("ProtocolError")
    ELSE IF HasFlag(h.flags, FLAG_PADDED) THEN Enter("HeadersPad", 1)
    ELSE IF HasFlag(h.flags, FLAG_PRIORITY) THEN Enter("HeadersPriority", 5)
    ELSE Enter("HeadersFragment", h.payload_length)

\* PriorityFrame::read_from with its two checks in the other order
PriorityFrame_read_from_StreamFirst(h) ==
    IF is_connection_control_stream(h.stream_id) THEN Reject("ProtocolError")
    ELSE IF h.payload_length # 5 THEN Reject("FrameSizeError")
    ELSE Enter("Priority", 5)

\* PriorityFrame::read_from
PriorityFrame_read_from(h) ==
    IF h.payload_length # 5 THEN Reject("FrameSizeError")
    ELSE IF is_connection_control_stream(h.stream_id) THEN Reject("ProtocolError")
    ELSE Enter("Priority", 5)

\* RstStreamFrame::read_from
RstStreamFrame_read_from(h) ==
    IF h.payload_length # 4 THEN Reject("FrameSizeError")
    ELSE IF is_connection_control_stream(h.stream_id) THEN Reject("ProtocolError")
    ELSE Enter("RstStream", 4)

\* SettingsFrame::read_from
SettingsFrame_read_from(h) ==
    IF h.payload_length % 6 # 0 THEN Reject("FrameSizeError")
    ELSE IF ~is_connection_control_stream(h.stream_id) THEN Reject("ProtocolError")
    ELSE Enter("Settings", h.payload_length)

\* PushPromiseFrame::read_from
PushPromiseFrame_read_from(h) ==
    IF is_connection_control_stream(h.stream_id) THEN Reject("ProtocolError")
    ELSE IF HasFlag(h.flags, FLAG_PADDED) THEN Enter("PushPromisePad", 1)
    ELSE Enter("PushPromiseId", 4)

\* PingFrame::read_from with its two checks in the other order
PingFrame_read_from_StreamFirst(h) ==
    IF ~is_connection_control_stream(h.stream_id) THEN Reject("ProtocolError")
    ELSE IF h.payload_length # PING_PAYLOAD_LEN THEN Reject("FrameSizeError")
    ELSE Enter("Ping", PING_PAYLOAD_LEN)

\* PingFrame::read_from
PingFrame_read_from(h) ==
    IF h.payload_length # PING_PAYLOAD_LEN THEN Reject("FrameSizeError")
    ELSE IF ~is_connection_control_stream(h.stream_id) THEN Reject("ProtocolError")
    ELSE Enter("Ping", PING_PAYLOAD_LEN)

\* GoawayFrame::read_from
GoawayFrame_read_from(h) ==
    IF ~is_connection_control_stream(h.stream_id) THEN Reject("ProtocolError")
    ELSE Enter("Goaway", h.payload_length)

\* WindowUpdateFrame::read_from
WindowUpdateFrame_read_from(h) ==
    IF h.payload_length # 4 THEN Reject("FrameSizeError")
    ELSE Enter("WindowUpdate", 4)

\* ContinuationFrame::read_from
ContinuationFrame_read_from(h) ==
    IF is_connection_control_stream(h.stream_id) THEN Reject("ProtocolError")
    ELSE Enter("Continuation", h.payload_length)

\* ReadFrame::poll, the match on header.frame_type; an unknown type reaches
\* unimplemented!()
Dispatch(h) ==
    CASE h.frame_type = FRAME_TYPE_DATA -> DataFrame_read_from(h)
      [] h.frame_type = FRAME_TYPE_HEADERS -> HeadersFrame_read_from(h)
      [] h.frame_type = FRAME_TYPE_PRIORITY -> PriorityFrame_read_from(h)
      [] h.frame_type = FRAME_TYPE_RST_STREAM -> RstStreamFrame_read_from(h)
      [] h.frame_type = FRAME_TYPE_SETTINGS -> SettingsFrame_read_from(h)
      [] h.frame_type = FRAME_TYPE_PUSH_PROMISE -> PushPromiseFrame_read_from(h)
      [] h.frame_type = FRAME_TYPE_PING -> PingFrame_read_from(h)
      [] h.frame_type = FRAME_TYPE_GOAWAY -> GoawayFrame_read_from(h)
      [] h.frame_type = FRAME_TYPE_WINDOW_UPDATE -> WindowUpdateFrame_read_from(h)
      [] h.frame_type = FRAME_TYPE_CONTINUATION -> ContinuationFrame_read_from(h)
      [] OTHER -> Reject("Abort")

\* the size check of ReadFrame::poll with < in place of <=
HeaderStep_Strict(h, max_frame_size) ==
    IF ~(h.payload_length < max_frame_size) THEN Reject("FrameSizeError")
    ELSE Dispatch(h)

\* ReadFrame::poll, Phase::A: the size check, then the dispatch
HeaderStep(h, max_frame_size) ==
    IF ~(h.payload_length <= max_frame_size) THEN Reject("FrameSizeError")
    ELSE Dispatch(h)

\* the outcome of a completed ReadExact of a payload stage: "Next" with the
\* reader for the next stage, "Frame" with the frame, an ErrorKind, or "Abort"
NextStage(rd, stage, need) ==
    IF need < 0 THEN [res |-> "Abort", rd |-> rd, frame |-> NoFrame]  \* usize underflow
    ELSE [res |-> "Next", frame |-> NoFrame,
          rd |-> [rd EXCEPT !.stage = stage, !.need = need, !.got = <<>>]]

Done(rd, frame) == [res |-> "Frame", rd |-> rd, frame |-> frame]

Fail(rd, kind) == [res |-> kind, rd |-> rd, frame |-> NoFrame]

\* the padding check with > for >=: padding that fills the buffer is refused
PaddingOk_Strict(rd, buf) == rd.padding_len = None \/ Len(buf) > rd.padding_len

\* the padding check and truncation shared by the padded payload readers
PaddingOk(rd, buf) == rd.padding_len = None \/ Len(buf) >= rd.padding_len

\* the truncation left out: the padding stays in the content
Unpadded_KeepPadding(rd, buf) == buf

Unpadded(rd, buf) ==
    IF rd.padding_len = None THEN buf ELSE Take(buf, Len(buf) - rd.padding_len)

\* ReadDataFrame::poll that asks for payload_length bytes after the pad-length
\* octet, not payload_length - 1
ReadDataFrame_poll_WholePayload(rd, bytes) ==
    LET h == rd.header IN
    IF rd.stage = "DataPad"
    THEN NextStage([rd EXCEPT !.padding_len = bytes[1]], "DataBody", h.payload_length)
    ELSE IF ~PaddingOk(rd, bytes) THEN Fail(rd, "ProtocolError")
    ELSE Done(rd, [type |-> "Data", stream_id |-> h.stream_id,
                   end_stream |-> HasFlag(h.flags, FLAG_END_STREAM),
                   padding_len |-> rd.padding_len, data |-> Unpadded(rd, bytes)])

\* ReadDataFrame::poll
ReadDataFrame_poll(rd, bytes) ==
    LET h == rd.header IN
    IF rd.stage = "DataPad"
    THEN NextStage([rd EXCEPT !.padding_len = bytes[1]], "DataBody", h.payload_length - 1)
    ELSE IF ~PaddingOk(rd, bytes) THEN Fail(rd, "ProtocolError")
    ELSE Done(rd, [type |-> "Data", stream_id |-> h.stream_id,
                   end_stream |-> HasFlag(h.flags, FLAG_END_STREAM),
                   padding_len |-> rd.padding_len, data |-> Unpadded(rd, bytes)])

\* ReadHeadersFrame::poll
ReadHeadersFrame_poll(rd, bytes) ==
    LET h == rd.header IN
    CASE rd.stage = "HeadersPad" ->
            LET rd1 == [rd EXCEPT !.read_bytes = @ + 1, !.padding_len = bytes[1]]
            IN  IF HasFlag(h.flags, FLAG_PRIORITY) THEN NextStage(rd1, "HeadersPriority", 5)
                ELSE NextStage(rd1, "HeadersFragment", h.payload_length - rd1.read_bytes)
      [] rd.stage = "HeadersPriority" ->
            LET rd1 == [rd EXCEPT !.read_bytes = @ + 5,
                                  !.priority = <<Priority_from_bytes(bytes)>>]
            IN  NextStage(rd1, "HeadersFragment", h.payload_length - rd1.read_bytes)
      [] OTHER ->
            IF ~PaddingOk(rd, bytes) THEN Fail(rd, "ProtocolError")
            ELSE Done(rd, [type |-> "Headers", stream_id |-> h.stream_id,
                           end_stream |-> HasFlag(h.flags, FLAG_END_STREAM),
                           end_headers |-> HasFlag(h.flags, FLAG_END_HEADERS),
                           priority |-> rd.priority, padding_len |-> rd.padding_len,
                           fragment |-> Unpadded(rd, bytes)])

\* ReadPushPromiseFrame::poll
ReadPushPromiseFrame_poll(rd, bytes) ==
    LET h == rd.header IN
    CASE rd.stage = "PushPromisePad" ->
            NextStage([rd EXCEPT !.read_bytes = @ + 1, !.padding_len = bytes[1]],
                 "PushPromiseId", 4)
      [] rd.stage = "PushPromiseId" ->
            LET rd1 == [rd EXCEPT !.read_bytes = @ + 4,
                                  !.promise_stream_id = ReadU32(bytes).lo]
            IN  NextStage(rd1, "PushPromiseFragment", h.payload_length - rd1.read_bytes)
      [] OTHER ->
            IF ~PaddingOk(rd, bytes) THEN Fail(rd, "ProtocolError")
            ELSE Done(rd, [type |-> "PushPromise", stream_id |-> h.stream_id,
                           promise_stream_id |-> rd.promise_stream_id,
                           end_headers |-> HasFlag(h.flags, FLAG_END_HEADERS),
                           padding_len |-> rd.padding_len,
                           fragment |-> Unpadded(rd, bytes)])

\* ReadSettingsFrame::poll without the length assertion of the ACK branch
ReadSettingsFrame_poll_AckAnyLength(rd, bytes) ==
    IF HasFlag(rd.header.flags, FLAG_ACK) THEN Done(rd, SettingsAck)
    ELSE LET d == DecodeSettings(bytes)
         IN  IF d.res # "Ok" THEN Fail(rd, d.res) ELSE Done(rd, SettingsSyn(d.settings))

\* ReadSettingsFrame::poll
ReadSettingsFrame_poll(rd, bytes) ==
    IF HasFlag(rd.header.flags, FLAG_ACK)
    THEN IF rd.header.payload_length # 0 THEN Fail(rd, "FrameSizeError")
         ELSE Done(rd, SettingsAck)
    ELSE LET d == DecodeSettings(bytes)
         IN  IF d.res # "Ok" THEN Fail(rd, d.res) ELSE Done(rd, SettingsSyn(d.settings))

\* ReadPingFrame::poll
ReadPingFrame_poll(rd, bytes) ==
    Done(rd, PingFrame(HasFlag(rd.header.flags, FLAG_ACK), bytes))

\* ReadGoawayFrame::poll; a payload shorter than 8 bytes fails the slice index
ReadGoawayFrame_poll(rd, bytes) ==
    IF Len(bytes) < 8 THEN [res |-> "Abort", rd |-> rd, frame |-> NoFrame]
    ELSE Done(rd, [type |-> "Goaway",
                   last_stream_id |-> ReadU32(SubSeq(bytes, 1, 4)).lo,
                   error |-> Error_from_code(ReadU32(SubSeq(bytes, 5, 8))),
                   debug_data |-> Drop(bytes, 8)])

\* ReadWindowUpdateFrame::poll testing the unmasked value against 0
ReadWindowUpdateFrame_poll_Unmasked(rd, bytes) ==
    LET window_size_increment == ReadU32(bytes).lo IN
    IF ReadU32(bytes).hi = 0 /\ window_size_increment = 0 THEN Fail(rd, "ProtocolError")
    ELSE Done(rd, [type |-> "WindowUpdate", stream_id |-> rd.header.stream_id,
                   window_size_increment |-> window_size_increment])

\* ReadWindowUpdateFrame::poll
ReadWindowUpdateFrame_poll(rd, bytes) ==
    LET window_size_increment == ReadU32(bytes).lo IN
    IF window_size_increment = 0 THEN Fail(rd, "ProtocolError")
    ELSE Done(rd, [type |-> "WindowUpdate", stream_id |-> rd.header.stream_id,
                   window_size_increment |-> window_size_increment])

\* ReadPriorityFrame::poll
ReadPriorityFrame_poll(rd, bytes) ==
    Done(rd, [type |-> "Priority", stream_id |-> rd.header.stream_id,
              priority |-> Priority_from_bytes(bytes)])

\* ReadRstStreamFrame::poll
ReadRstStreamFrame_poll(rd, bytes) ==
    Done(rd, [type |-> "RstStream", stream_id |-> rd.header.stream_id,
              error |-> Error_from_code(ReadU32(bytes))])

\* ReadContinuationFrame::poll
ReadContinuationFrame_poll(rd, bytes) ==
    Done(rd, [type |-> "Continuation", stream_id |-> rd.header.stream_id,
              end_headers |-> HasFlag(rd.header.flags, FLAG_END_HEADERS),
              payload |-> bytes])

\* ReadFramePayload::poll: the payload reader of the frame's type
ReadFramePayload_poll(rd, bytes) ==
    CASE rd.stage \in {"DataPad", "DataBody"} -> ReadDataFrame_poll(rd, bytes)
      [] rd.stage \in {"HeadersPad", "HeadersPriority", "HeadersFragment"} ->
            ReadHeadersFrame_poll(rd, bytes)
      [] rd.stage \in {"PushPromisePad", "PushPromiseId", "PushPromiseFragment"} ->
            ReadPushPromiseFrame_poll(rd, bytes)
      [] rd.stage = "Settings" -> ReadSettingsFrame_poll(rd, bytes)
      [] rd.stage = "Ping" -> ReadPingFrame_poll(rd, bytes)
      [] rd.stage = "Goaway" -> ReadGoawayFrame_poll(rd, bytes)
      [] rd.stage = "WindowUpdate" -> ReadWindowUpdateFrame_poll(rd, bytes)
      [] rd.stage = "Priority" -> ReadPriorityFrame_poll(rd, bytes)
      [] rd.stage = "RstStream" -> ReadRstStreamFrame_poll(rd, bytes)
      [] rd.stage = "Continuation" -> ReadContinuationFrame_poll(rd, bytes)

\* what a poll leaves behind: the connection state c and the outcome
Out(c, res, frame) == [c |-> c, res |-> res, frame |-> frame]

Gone(c) == [c EXCEPT !.stream.future.stage = "Gone"]

\* the log of header decisions, with the outcome p of the payload reader
\* entered for the last header and the buffer buf its last ReadExact gave
Ended(c, p, buf) ==
    [c EXCEPT !.headers[Len(c.headers)].end = p.res,
              !.headers[Len(c.headers)].frame = p.frame,
              !.headers[Len(c.headers)].padding_len = p.rd.padding_len,
              !.headers[Len(c.headers)].buf = buf,
              !.headers[Len(c.headers)].done = c.consumed]

RECURSIVE ReadFrame_poll(_)

\* ReadFrame::poll, Phase::A ready: the header h is parsed and decided on
\* (d); the decision is logged, and with it what the frame's payload reader
\* ends in ("Pending" until then)
ReadFrame_header(c1, rd, h, d) ==
    LET c2 == [c1 EXCEPT !.headers = Append(@,
                             [header |-> h, res |-> d.res, stage |-> d.stage,
                              max_frame_size |-> rd.max_frame_size,
                              start |-> rd.start, at |-> c1.consumed,
                              end |-> IF d.res = "Ok" THEN "Pending" ELSE d.res,
                              frame |-> NoFrame, padding_len |-> None, buf |-> <<>>,
                              raw |-> c1.stream.future.got, done |-> c1.consumed,
                              limit |-> c1.stream.max_frame_size]),
                         !.stream.future.header = h,
                         !.stream.future.stage = d.stage,
                         !.stream.future.need = d.need,
                         !.stream.future.got = <<>>]
    IN  IF d.res = "Ok" THEN ReadFrame_poll(c2) ELSE Out(c2, d.res, NoFrame)

\* ReadFrame::poll, Phase::B polled: p is the outcome of the payload reader
ReadFrame_payload(c1, p) ==
    CASE p.res = "Next" -> ReadFrame_poll([c1 EXCEPT !.stream.future = p.rd])
      [] p.res = "Frame" -> Out(Gone(Ended([c1 EXCEPT !.stream.future = p.rd], p, c1.stream.future.got)),
                                "Frame", p.frame)
      [] OTHER -> Out(Gone(Ended([c1 EXCEPT !.stream.future = p.rd], p, c1.stream.future.got)), p.res, NoFrame)

\* ReadFrame::poll.  Each round is one ReadExact: it takes the bytes that have
\* arrived, up to the number it needs, and is NotReady when they do not
\* suffice.  A future that has completed (with a frame or an error) must not
\* be polled again: the poll panics.
ReadFrame_poll(c) ==
    LET rd == c.stream.future
        k == Min(rd.need - Len(rd.got), Len(c.inbound))
        bytes == rd.got \o Take(c.inbound, k)
        c1 == [c EXCEPT !.stream.future.got = bytes,
                        !.inbound = Drop(c.inbound, k),
                        !.consumed = @ + k]
    IN  IF rd.stage = "Gone" THEN Out(c, "Abort", NoFrame)
        ELSE IF Len(bytes) < rd.need THEN Out(c1, "NotReady", NoFrame)
        ELSE IF rd.stage = "Header"
        THEN ReadFrame_header(c1, rd, ReadFrameHeader_parse(bytes),
                              HeaderStep(ReadFrameHeader_parse(bytes), rd.max_frame_size))
        ELSE ReadFrame_payload(c1, ReadFramePayload_poll(rd, bytes))

\* FrameStream::poll on the outcome r of polling its future
FrameStream_ready(r) ==
    IF r.res = "Frame"
    THEN Out([r.c EXCEPT !.stream.future =
                  NewReadFrame(r.c.stream.max_frame_size, r.c.consumed)],
             "Frame", r.frame)
    ELSE r

\* FrameStream::poll: a frame that is ready starts the next ReadFrame with
\* the stream's current max_frame_size; an error leaves the future as it is
FrameStream_poll(c) == FrameStream_ready(ReadFrame_poll(c))

\* Frame::read_from(reader, max_frame_size) polled to its end on a reader
\* that holds `bytes`
Frame_read_from(bytes, max_frame_size) ==
    ReadFrame_poll([stream |-> [max_frame_size |-> max_frame_size,
                                future |-> NewReadFrame(max_frame_size, 0)],
                    inbound |-> bytes, consumed |-> 0, headers |-> <<>>])

---------------------------------------------------------------------------
(* FrameSink: the outbound queue and the single write in progress.         *)
(* pending holds the bytes of the frame being written (WriteFrame: header, *)
(* then payload) that the writer has not accepted yet.  Two fields are     *)
(* history: sent, the frames passed to start_send, in order, and last, the *)
(* last call on the sink and what it returned.                             *)

\* FrameSink::new
FrameSink_new ==
    [state |-> "Idle", cur |-> NoFrame, pending |-> <<>>, queue |-> <<>>,
     sent |-> <<>>, last |-> [op |-> "new", res |-> "None"]]

\* FrameSinkState::Writing(frame.write_into(writer))
Writing(sk, frame) ==
    [sk EXCEPT !.state = "Writing", !.cur = frame, !.pending = Frame_write_into(frame)]

\* the call start_send(item) in the history of the sink; it returns
\* Ok(AsyncSink::Ready)
Sent(sk, item) ==
    [sk EXCEPT !.sent = Append(@, item), !.last = [op |-> "start_send", res |-> "Ready"]]

\* FrameSink::start_send that puts the new frame in front of the one being
\* written
FrameSink_start_send_InFront(sk, item) ==
    IF sk.state = "Writing"
    THEN Sent(Writing([sk EXCEPT !.queue = <<sk.cur>> \o @], item), item)
    ELSE Sent(Writing(sk, item), item)

\* FrameSink::start_send (and start_write_frame, which only calls it)
\* The state is taken out (Done is left in its place) when it is not
\* Writing: an Idle one gives the writer, anything else is unreachable!().
FrameSink_start_send(sk, item) ==
    IF sk.state = "Writing" THEN Sent([sk EXCEPT !.queue = Append(@, item)], item)
    ELSE IF sk.state = "Idle" THEN Sent(Writing(sk, item), item)
    ELSE [sk EXCEPT !.state = "Done", !.last = [op |-> "start_send", res |-> "Abort"]]

\* the frames handed to the sink and not yet written completely, in order
SinkFrames(sk) == (IF sk.state = "Writing" THEN <<sk.cur>> ELSE <<>>) \o sk.queue

\* the loop of FrameSink::poll_complete that takes the frame queued last
RECURSIVE FrameSink_write_Lifo(_)
FrameSink_write_Lifo(c) ==
    IF c.sink.state # "Writing" THEN c
    ELSE LET k == Min(c.wcap, Len(c.sink.pending))
             rest == Drop(c.sink.pending, k)
             c1 == [c EXCEPT !.written = @ \o Take(c.sink.pending, k),
                             !.wcap = @ - k,
                             !.sink.pending = rest]
         IN  IF rest # <<>> THEN c1
             ELSE IF c1.sink.queue # <<>>
             THEN FrameSink_write_Lifo(
                      [c1 EXCEPT !.sink =
                           Writing([c1.sink EXCEPT !.queue = SubSeq(@, 1, Len(@) - 1)],
                                   c1.sink.queue[Len(c1.sink.queue)])])
             ELSE [c1 EXCEPT !.sink.state = "Idle", !.sink.cur = NoFrame]

\* the loop of FrameSink::poll_complete that becomes Idle when a frame is
\* complete, whatever is queued
FrameSink_write_OneFrame(c) ==
    IF c.sink.state # "Writing" THEN c
    ELSE LET k == Min(c.wcap, Len(c.sink.pending))
             rest == Drop(c.sink.pending, k)
             c1 == [c EXCEPT !.written = @ \o Take(c.sink.pending, k),
                             !.wcap = @ - k,
                             !.sink.pending = rest]
         IN  IF rest # <<>> THEN c1
             ELSE [c1 EXCEPT !.sink.state = "Idle", !.sink.cur = NoFrame]

\* the loop of FrameSink::poll_complete: write what the writer accepts (the
\* poll of WriteFrame); when a frame is complete, start the next queued one
\* or become Idle; leave the loop when the writer would block
RECURSIVE FrameSink_write(_)
FrameSink_write(c) ==
    IF c.sink.state # "Writing" THEN c
    ELSE LET k == Min(c.wcap, Len(c.sink.pending))
             rest == Drop(c.sink.pending, k)
             c1 == [c EXCEPT !.written = @ \o Take(c.sink.pending, k),
                             !.wcap = @ - k,
                             !.sink.pending = rest]
         IN  IF rest # <<>> THEN c1
             ELSE IF c1.sink.queue # <<>>
             THEN FrameSink_write(
                      [c1 EXCEPT !.sink = Writing([c1.sink EXCEPT !.queue = Tail(@)],
                                                  Head(c1.sink.queue))])
             ELSE [c1 EXCEPT !.sink.state = "Idle", !.sink.cur = NoFrame]

\* FrameSink::poll_complete: the loop, and then Ok(Async::Ready(())) however
\* the loop was left
FrameSink_poll_complete(c) ==
    [FrameSink_write(c) EXCEPT !.sink.last = [op |-> "poll_complete", res |-> "Ready"]]

\* FrameSink::poll_complete on a writer that gives an error where it
\* would have blocked, with the state taken out before the poll (Done is
\* left in its place) and not put back on the error
FrameSink_poll_complete_failing_Taken(c) ==
    IF FrameSink_write(c).sink.state = "Writing"
    THEN [FrameSink_write(c) EXCEPT !.sink.state = "Done",
                                    !.sink.last = [op |-> "poll_complete", res |-> "Io"]]
    ELSE FrameSink_poll_complete(c)

\* FrameSink::poll_complete on a writer that gives an error where it would
\* have blocked: the `?` on f.poll() returns the error from inside the
\* loop, the state is the Writing it was, with the frame that failed.
\* A sink that has nothing left to write does not call the writer.
FrameSink_poll_complete_failing(c) ==
    IF FrameSink_write(c).sink.state = "Writing"
    THEN [FrameSink_write(c) EXCEPT !.sink.last = [op |-> "poll_complete", res |-> "Io"]]
    ELSE FrameSink_poll_complete(c)

---------------------------------------------------------------------------
(* Connection: the handlers of inbound frames *)

Pong(data) == [type |-> "Pong", data |-> data]

StreamEvent(id) == [type |-> "Stream", id |-> id]

\* the outcome of a handler: the connection state and "Ok", an ErrorKind or "Abort"
Handled(c, res) == [c |-> c, res |-> res]

\* the HPACK decoder as the connection sees it: a header block either
\* decodes to a field list or is refused.  The blocks of the model: the
\* empty block, the one-octet indexed field 0x82 (:method: GET), and 0xFF,
\* an integer that is cut short.
Header_decode(fragment) ==
    CASE fragment = <<>> -> [res |-> "Ok", fields |-> <<>>]
      [] fragment = <<130>> -> [res |-> "Ok", fields |-> << <<":method", "GET">> >>]
      [] OTHER -> [res |-> "CompressionError", fields |-> <<>>]

\* Connection::handle_ping_frame answering with a PING that is no ACK
handle_ping_frame_EchoNoAck(c, frame) ==
    IF frame.ack
    THEN Handled([c EXCEPT !.events = Append(@, Pong(frame.data))], "Ok")
    ELSE Handled([c EXCEPT !.sink =
                      FrameSink_start_send(@, PingFrame(FALSE, frame.data))], "Ok")

\* Connection::handle_ping_frame answering every PING, the ACKs too
handle_ping_frame_AckAnswered(c, frame) ==
    Handled([c EXCEPT !.sink = FrameSink_start_send(@, PingFrame(TRUE, frame.data))], "Ok")

\* Connection::handle_ping_frame
handle_ping_frame(c, frame) ==
    IF frame.ack
    THEN Handled([c EXCEPT !.events = Append(@, Pong(frame.data))], "Ok")
    ELSE Handled([c EXCEPT !.sink =
                      FrameSink_start_send(@, PingFrame(TRUE, frame.data))], "Ok")

\* Connection::handle_setting: unimplemented!()
handle_setting(c, setting) == Handled(c, "Abort")

\* Connection::handle_settings_frame
handle_settings_frame(c, frame) ==
    IF frame.is_ack THEN Handled(c, "Abort")                 \* unimplemented!()
    ELSE IF frame.settings # <<>> THEN handle_setting(c, Head(frame.settings))
    ELSE Handled([c EXCEPT !.is_settings_received = TRUE], "Ok")

\* StreamHandle::handle_header: the item is sent on the handle's channel,
\* items being the items sent so far
StreamHandle_handle_header(items, header) ==
    Append(items, [type |-> "Header", fields |-> header.fields])

\* StreamHandle::handle_data: the data is sent on the handle's channel
StreamHandle_handle_data(items, data) == Append(items, [type |-> "Data", data |-> data])

\* StreamHandle::handle_end_stream: the end of the stream is sent on the
\* handle's channel
StreamHandle_handle_end_stream(items) == Append(items, [type |-> "EndStream"])

\* Connection::handle_headers_frame that queues the event without sending
\* the header on the new stream's channel
handle_headers_frame_NoHeaderItem(c, frame) ==
    IF frame.end_stream \/ frame.priority # <<>> \/ ~frame.end_headers
       \/ frame.stream_id \in c.streams
    THEN Handled(c, "Abort")
    ELSE IF ~(frame.stream_id >= c.next_peer_stream_id) THEN Handled(c, "ProtocolError")
    ELSE LET header == Header_decode(frame.fragment) IN
         IF header.res # "Ok" THEN Handled(c, header.res)
         ELSE Handled([c EXCEPT
                  !.streams = @ \cup {frame.stream_id},
                  !.channels = (frame.stream_id :> <<>>) @@ @,
                  !.events = Append(@, StreamEvent(frame.stream_id))], "Ok")

\* Connection::handle_headers_frame: Stream::new makes the channel, the
\* header is sent on it, the handle is registered, and the event is queued
handle_headers_frame(c, frame) ==
    IF frame.end_stream \/ frame.priority # <<>> \/ ~frame.end_headers
       \/ frame.stream_id \in c.streams
    THEN Handled(c, "Abort")                                  \* unimplemented!()
    ELSE IF ~(frame.stream_id >= c.next_peer_stream_id) THEN Handled(c, "ProtocolError")
    ELSE LET header == Header_decode(frame.fragment) IN
         IF header.res # "Ok" THEN Handled(c, header.res)
         ELSE Handled([c EXCEPT
                  !.streams = @ \cup {frame.stream_id},
                  !.channels = (frame.stream_id :> StreamHandle_handle_header(<<>>, header))
                                  @@ @,
                  !.events = Append(@, StreamEvent(frame.stream_id))], "Ok")

\* Connection::handle_data_frame
handle_data_frame(c, frame) ==
    IF frame.stream_id \in c.streams
    THEN Handled([c EXCEPT !.channels[frame.stream_id] =
                      IF frame.end_stream
                      THEN StreamHandle_handle_end_stream(
                               StreamHandle_handle_data(@, frame.data))
                      ELSE StreamHandle_handle_data(@, frame.data)],
                 "Ok")
    ELSE Handled(c, "Abort")                                  \* unimplemented!()

\* the handlers that are unimplemented!(): CONTINUATION, GOAWAY, PRIORITY,
\* RST_STREAM, PUSH_PROMISE, WINDOW_UPDATE
handle_unimplemented(c, frame) == Handled(c, "Abort")

\* the part of the connection a handler may change
Snapshot(c) ==
    [is_settings_received |-> c.is_settings_received, events |-> c.events,
     streams |-> c.streams, sink |-> SinkFrames(c.sink)]

\* Connection::handle_frame without the is_settings_received assertion
Dispatch_frame_NoGate(c, frame) ==
    CASE frame.type = "Settings" -> handle_settings_frame(c, frame)
      [] frame.type = "Ping" -> handle_ping_frame(c, frame)
      [] frame.type = "Headers" -> handle_headers_frame(c, frame)
      [] frame.type = "Data" -> handle_data_frame(c, frame)
      [] OTHER -> handle_unimplemented(c, frame)

\* Connection::handle_frame, without the log
Dispatch_frame(c, frame) ==
    IF frame.type = "Settings" THEN handle_settings_frame(c, frame)
    ELSE IF ~c.is_settings_received THEN Handled(c, "ProtocolError")
    ELSE CASE frame.type = "Ping" -> handle_ping_frame(c, frame)
           [] frame.type = "Headers" -> handle_headers_frame(c, frame)
           [] frame.type = "Data" -> handle_data_frame(c, frame)
           [] OTHER -> handle_unimplemented(c, frame)

\* the outcome h of handling frame in state c, with the call logged
Logged(c, frame, h) ==
    Handled([h.c EXCEPT !.calls = Append(@,
                 [frame |-> frame, res |-> h.res, before |-> Snapshot(c),
                  after |-> Snapshot(h.c), failed |-> c.failed,
                  written |-> Len(c.written), consumed |-> c.consumed])],
            h.res)

\* Connection::handle_frame; every call is logged with the state before and after
handle_frame(c, frame) == Logged(c, frame, Dispatch_frame(c, frame))

\* Connection::poll: return a queued event; else flush the sink, poll the
\* frame stream and handle the frame it gives, again and again
RECURSIVE Connection_poll(_)

\* Connection::poll after handle_frame: an error is returned, else the loop
\* goes on
Connection_handled(h) ==
    IF h.res = "Ok" THEN Connection_poll(h.c) ELSE Out(h.c, h.res, NoFrame)

\* Connection::poll on the outcome r of polling the frame stream
Connection_polled(r) ==
    IF r.res # "Frame" THEN r ELSE Connection_handled(handle_frame(r.c, r.frame))

\* Connection::poll that handles the frames that have arrived before it
\* returns an event, and takes the event queued last
Connection_poll_Lifo(c) ==
    IF c.events # <<>> /\ c.inbound = <<>>
    THEN Out([c EXCEPT !.events = SubSeq(@, 1, Len(@) - 1)], "Event",
             c.events[Len(c.events)])
    ELSE Connection_polled(FrameStream_poll(FrameSink_poll_complete(c)))

Connection_poll(c) ==
    IF c.events # <<>>
    THEN Out([c EXCEPT !.events = Tail(@)], "Event", Head(c.events))
    ELSE Connection_polled(FrameStream_poll(FrameSink_poll_complete(c)))

---------------------------------------------------------------------------
(* The peer's frames, as the bytes it puts on the transport *)

Raw(payload_length, frame_type, flags, stream_id, payload) ==
    FrameHeader_write_into([payload_length |-> payload_length, frame_type |-> frame_type,
                            flags |-> flags, stream_id |-> stream_id]) \o payload

D1 == <<1, 2, 3, 4, 5, 6, 7, 8>>
D2 == <<0, 0, 0, 0, 0, 0, 0, 255>>

RawSettings == Raw(0, FRAME_TYPE_SETTINGS, 0, 0, <<>>)
RawSettingsAck == Raw(0, FRAME_TYPE_SETTINGS, FLAG_ACK, 0, <<>>)
RawSettingsOne == Raw(6, FRAME_TYPE_SETTINGS, 0, 0, <<0, 3, 0, 0, 0, 100>>)
RawSettingsAckPayload == Raw(6, FRAME_TYPE_SETTINGS, FLAG_ACK, 0, <<0, 3, 0, 0, 0, 100>>)
RawSettingsAckOnStream == Raw(6, FRAME_TYPE_SETTINGS, FLAG_ACK, 1, <<0, 3, 0, 0, 0, 100>>)
RawSettingsAckShort == Raw(3, FRAME_TYPE_SETTINGS, FLAG_ACK, 0, <<0, 3, 0>>)
RawSettingsShort == Raw(5, FRAME_TYPE_SETTINGS, 0, 0, <<0, 3, 0, 0, 0>>)
RawSettingsOnStream == Raw(0, FRAME_TYPE_SETTINGS, 0, 1, <<>>)
RawPing == Raw(8, FRAME_TYPE_PING, 0, 0, D1)
RawPong == Raw(8, FRAME_TYPE_PING, FLAG_ACK, 0, D2)
RawPingOnStream == Raw(8, FRAME_TYPE_PING, 0, 1, D1)
RawPongOnStream == Raw(8, FRAME_TYPE_PING, FLAG_ACK, 3, D2)
RawShortPingOnStream == Raw(7, FRAME_TYPE_PING, 0, 1, <<1, 2, 3, 4, 5, 6, 7>>)
RawOversizedPing == Raw(DEFAULT_MAX_FRAME_SIZE + 1, FRAME_TYPE_PING, 0, 1, <<>>)
RawOversized == Raw(DEFAULT_MAX_FRAME_SIZE + 1, FRAME_TYPE_DATA, 0, 1, <<>>)
RawOversizedUnknown == Raw(DEFAULT_MAX_FRAME_SIZE + 1, 10, 0, 0, <<>>)
RawLargest == Raw(DEFAULT_MAX_FRAME_SIZE, FRAME_TYPE_DATA, 0, 1, <<7, 7>>)
RawUnknown == Raw(2, 10, 0, 0, <<7, 7>>)
RawData == Raw(1, FRAME_TYPE_DATA, FLAG_END_STREAM, 1, <<5>>)
RawDataMore == Raw(2, FRAME_TYPE_DATA, 0, 1, <<6, 7>>)
RawData3 == Raw(1, FRAME_TYPE_DATA, 0, 3, <<9>>)
RawHeaders == Raw(1, FRAME_TYPE_HEADERS, FLAG_END_HEADERS, 1, <<130>>)
RawHeaders3 == Raw(1, FRAME_TYPE_HEADERS, FLAG_END_HEADERS, 3, <<130>>)
RawHeadersEven == Raw(0, FRAME_TYPE_HEADERS, FLAG_END_HEADERS, 2, <<>>)
RawPriority == Raw(5, FRAME_TYPE_PRIORITY, 0, 1, <<0, 0, 0, 0, 15>>)
RawRstStream == Raw(4, FRAME_TYPE_RST_STREAM, 0, 1, <<0, 0, 0, 8>>)
RawPushPromise == Raw(4, FRAME_TYPE_PUSH_PROMISE, FLAG_END_HEADERS, 1, <<0, 0, 0, 2>>)
RawGoaway == Raw(8, FRAME_TYPE_GOAWAY, 0, 0, <<0, 0, 0, 0, 0, 0, 0, 0>>)
RawWindowUpdate == Raw(4, FRAME_TYPE_WINDOW_UPDATE, 0, 0, <<0, 0, 0, 1>>)
RawContinuation == Raw(0, FRAME_TYPE_CONTINUATION, FLAG_END_HEADERS, 1, <<>>)

\* the peers of the model: each run draws what the peer sends from one of
\* these; one send is a frame, or two frames in a row
Menus ==
    { {RawSettings, RawPing, RawPong, RawSettings \o RawPong},
      {RawSettings, RawSettingsAck, RawSettingsAck \o RawPong},
      {RawPingOnStream, RawPongOnStream, RawShortPingOnStream, RawOversizedPing},
      {RawSettings, RawOversized, RawOversizedUnknown, RawLargest},
      {RawSettings, RawUnknown, RawUnknown \o RawPong},
      {RawSettings, RawData, RawHeaders, RawPriority},
      {RawSettings, RawRstStream, RawPushPromise, RawGoaway},
      {RawSettings, RawSettingsOne, RawWindowUpdate, RawContinuation},
      {RawSettings \o RawHeaders3, RawHeaders, RawHeadersEven, RawHeaders3},
      {RawSettings, RawSettingsAckPayload, RawSettingsAckOnStream, RawSettingsAckShort},
      {RawSettings, RawSettingsShort, RawSettingsOnStream, RawSettingsAck},
      {RawSettings \o RawHeaders, RawDataMore \o RawData, RawData, RawData3},
      {RawSettings \o RawHeaders \o RawHeaders3, RawData3 \o RawDataMore, RawData \o RawData3,
       RawHeaders} }

\* the data of the pings the application sends, each at most once
PingDatas == {D2}

---------------------------------------------------------------------------
(* The state machine *)

\* the state after Connection::new: the initial SETTINGS is handed to the
\* sink, nothing has been read or written
Init ==
    /\ is_settings_received = FALSE
    /\ events = <<>>
    /\ streams = {}
    /\ next_peer_stream_id = 1
    /\ sink = FrameSink_start_send(FrameSink_new, SettingsSyn(<<>>))
    /\ stream = [max_frame_size |-> DEFAULT_MAX_FRAME_SIZE,
                 future |-> NewReadFrame(DEFAULT_MAX_FRAME_SIZE, 0)]
    /\ channels = <<>>
    /\ inbound = <<>>
    /\ wire = <<>>
    /\ written = <<>>
    /\ consumed = 0
    /\ accept = [got |-> PREFACE_BYTES]
    /\ status = "running"
    /\ ret = [res |-> "None", event |-> NoFrame]
    /\ returned = <<>>
    /\ failed = FALSE
    /\ calls = <<>>
    /\ headers = <<>>
    /\ menu \in Menus
    /\ nsent = 0
    /\ pinged = {}

\* the connection as the record the operations work on: its fields, the
\* bytes that have arrived (arrived more of them now) and the number of
\* bytes the writer accepts before WouldBlock
Conn(arrived, writable) ==
    [is_settings_received |-> is_settings_received, events |-> events,
     streams |-> streams, next_peer_stream_id |-> next_peer_stream_id,
     sink |-> sink, stream |-> stream, channels |-> channels,
     inbound |-> inbound \o Take(wire, arrived),
     written |-> written, wcap |-> writable, consumed |-> consumed, failed |-> failed,
     calls |-> calls, headers |-> headers]

IsError(res) == res \notin {"Event", "NotReady", "Ready", "Abort", "None", "Ok"}

\* the state after a Connection::poll with outcome r
Polled(r) ==
    /\ is_settings_received' = r.c.is_settings_received
    /\ events' = r.c.events
    /\ streams' = r.c.streams
    /\ next_peer_stream_id' = r.c.next_peer_stream_id
    /\ sink' = r.c.sink
    /\ stream' = r.c.stream
    /\ channels' = r.c.channels
    /\ inbound' = r.c.inbound
    /\ written' = r.c.written
    /\ consumed' = r.c.consumed
    /\ calls' = r.c.calls
    /\ headers' = r.c.headers
    /\ ret' = [res |-> r.res, event |-> r.frame]
    /\ returned' = IF r.res = "Event" THEN Append(returned, r.frame) ELSE returned
    /\ failed' = (failed \/ IsError(r.res))
    /\ status' = IF r.res = "Abort" THEN "aborted" ELSE "running"

\* the application polls the connection (futures::Stream::poll); by then
\* `arrived` more bytes of the peer's have reached the reader, and the writer
\* accepts `writable` bytes
Poll(arrived, writable) ==
    /\ status = "running"
    /\ Polled(Connection_poll(Conn(arrived, writable)))
    /\ wire' = Drop(wire, arrived)
    /\ UNCHANGED <<accept, menu, nsent, pinged>>

\* the application calls Connection::ping(data)
Ping(data) ==
    /\ status = "running"
    /\ data \notin pinged
    /\ pinged' = pinged \cup {data}
    /\ sink' = FrameSink_start_send(sink, PingFrame(FALSE, data))
    /\ UNCHANGED <<is_settings_received, events, streams, next_peer_stream_id, stream,
                   channels, inbound, wire, written, consumed, accept, status, ret,
                   returned, failed, calls, headers, menu, nsent>>

\* the peer sends the bytes of a frame, or of two
PeerSend(bytes) ==
    /\ status \in {"accepting", "running"}
    /\ nsent < MaxSends
    /\ wire' = wire \o bytes
    /\ nsent' = nsent + 1
    /\ UNCHANGED <<is_settings_received, events, streams, next_peer_stream_id, sink,
                   stream, channels, inbound, written, consumed, accept, status, ret,
                   returned, failed, calls, headers, menu, pinged>>

Next ==
    \/ \E arrived \in {Min(Chunk, Len(wire)), Len(wire)}, writable \in {0, WChunk, WAll} :
           Poll(arrived, writable)
    \/ \E data \in PingDatas : Ping(data)
    \/ \E bytes \in menu : PeerSend(bytes)

Spec == Init /\ [][Next]_vars

\* the peers that send PING frames (they are answered through the sink),
\* frames that make the connection panic, and frames the reader refuses
LiveMenus ==
    { m \in Menus : RawPing \in m \/ RawSettingsAck \in m \/ RawOversized \in m }

\* the state after Connection::new, with one of these peers
InitLive == Init /\ menu \in LiveMenus

\* a poll of the application that finds the sink writing, on a writer that
\* accepts WAll bytes, with everything the peer has sent arrived
FlushPoll == sink.state = "Writing" /\ Poll(Len(wire), WAll)

\* a connection that can be polled has a sink that is writing: the states
\* in which FlushPoll changes the state (PollWrites, below)
FlushPollEnabled == status = "running" /\ sink.state = "Writing"

\* The application polls the connection again and again, and the writer
\* accepts what is written to it: weak fairness of FlushPoll,
\* WF_vars(FlushPoll), with ENABLED <<FlushPoll>>_vars written as the
\* state predicate FlushPollEnabled.
SpecLive ==
    InitLive /\ [][Next]_vars /\ ([]<>(~FlushPollEnabled) \/ []<><<FlushPoll>>_vars)

---------------------------------------------------------------------------
(* Accepting a connection: Connection::accept gives the future Accept,     *)
(* which reads the client preface and then builds the Connection.          *)

\* ReadPreface::poll that compares all but the last byte
ReadPreface_poll_AllButLast(got, avail) ==
    LET k == Min(PREFACE_LEN - Len(got), Len(avail))
        bytes == got \o Take(avail, k)
    IN  [got |-> bytes, rest |-> Drop(avail, k),
         res |-> IF Len(bytes) < PREFACE_LEN THEN "NotReady"
                 ELSE IF Take(bytes, PREFACE_LEN - 1) # Take(PREFACE_BYTES, PREFACE_LEN - 1)
                      THEN "ProtocolError"
                 ELSE "Ready"]

\* ReadPreface::poll: the ReadExact of 24 bytes has read `got` and the
\* reader holds `avail`; when the 24 bytes are there they are compared with
\* PREFACE_BYTES
ReadPreface_poll(got, avail) ==
    LET k == Min(PREFACE_LEN - Len(got), Len(avail))
        bytes == got \o Take(avail, k)
    IN  [got |-> bytes, rest |-> Drop(avail, k),
         res |-> IF Len(bytes) < PREFACE_LEN THEN "NotReady"
                 ELSE IF bytes # PREFACE_BYTES THEN "ProtocolError"
                 ELSE "Ready"]

\* the peers that open a connection: the preface and frames after it, a
\* preface that is cut short, and openings that differ from the preface in
\* the last byte, in the first byte, in the version, or altogether
Openings ==
    { PREFACE_BYTES \o RawSettings,
      PREFACE_BYTES \o RawSettings \o RawPing,
      PREFACE_BYTES,
      Take(PREFACE_BYTES, PREFACE_LEN - 1),
      Take(PREFACE_BYTES, PREFACE_LEN - 1) \o <<13>> \o RawSettings,
      <<112>> \o Drop(PREFACE_BYTES, 1) \o RawSettings,
      Take(PREFACE_BYTES, 11) \o <<49, 46, 49>> \o Drop(PREFACE_BYTES, 14) \o RawSettings,
      RawSettings \o RawPing \o RawSettings }

\* the state after Connection::accept(reader, writer): the future is
\* pending, there is no Connection
InitAccept ==
    /\ is_settings_received = FALSE
    /\ events = <<>>
    /\ streams = {}
    /\ next_peer_stream_id = 1
    /\ sink = FrameSink_new
    /\ stream = [max_frame_size |-> DEFAULT_MAX_FRAME_SIZE,
                 future |-> NewReadFrame(DEFAULT_MAX_FRAME_SIZE, 0)]
    /\ channels = <<>>
    /\ inbound = <<>>
    /\ wire = <<>>
    /\ written = <<>>
    /\ consumed = 0
    /\ accept = [got |-> <<>>]
    /\ status = "accepting"
    /\ ret = [res |-> "None", event |-> NoFrame]
    /\ returned = <<>>
    /\ failed = FALSE
    /\ calls = <<>>
    /\ headers = <<>>
    /\ menu \in {{o} : o \in Openings}
    /\ nsent = 0
    /\ pinged = {}

\* Accept::poll on the outcome p of polling the ReadPreface: Ready builds
\* the Connection (Connection::new, as in Init) on the reader where the
\* preface left it; an error or NotReady builds nothing
Accept_polled(p) ==
    /\ accept' = [got |-> p.got]
    /\ inbound' = p.rest
    /\ consumed' = consumed + (Len(p.got) - Len(accept.got))
    /\ ret' = [res |-> p.res, event |-> NoFrame]
    /\ failed' = (failed \/ IsError(p.res))
    /\ status' = CASE p.res = "Ready" -> "running"
                    [] p.res = "NotReady" -> "accepting"
                    [] OTHER -> "refused"
    /\ sink' = IF p.res = "Ready"
               THEN FrameSink_start_send(FrameSink_new, SettingsSyn(<<>>))
               ELSE sink
    /\ stream' = IF p.res = "Ready"
                 THEN [max_frame_size |-> DEFAULT_MAX_FRAME_SIZE,
                       future |-> NewReadFrame(DEFAULT_MAX_FRAME_SIZE, consumed')]
                 ELSE stream
    /\ UNCHANGED <<is_settings_received, events, streams, next_peer_stream_id,
                   channels, written, returned, calls, headers, menu, nsent, pinged>>

\* the application polls Accept; by then `arrived` more bytes of the peer's
\* have reached the reader
Accept_poll(arrived) ==
    /\ status = "accepting"
    /\ Accept_polled(ReadPreface_poll(accept.got, inbound \o Take(wire, arrived)))
    /\ wire' = Drop(wire, arrived)

NextAccept ==
    \/ \E arrived \in {Min(1, Len(wire)), Min(Chunk, Len(wire)), Len(wire)} :
           Accept_poll(arrived)
    \/ \E arrived \in {Min(Chunk, Len(wire)), Len(wire)}, writable \in {WChunk, WAll} :
           Poll(arrived, writable)
    \/ \E bytes \in menu : PeerSend(bytes)

SpecAccept == InitAccept /\ [][NextAccept]_vars

---------------------------------------------------------------------------
(* The codec on its own: a frame is passed to a FrameSink, the bytes its   *)
(* writer accepts travel to a reader, and a FrameStream reads them.        *)

P0 == [is_exclusive |-> FALSE, stream_dependency |-> 0, weight |-> 15]
P1 == [is_exclusive |-> TRUE, stream_dependency |-> 3, weight |-> 255]

\* Option<u8>: None and Some of the smallest, a small and the largest length
PaddingLens == {None, 0, 2, 255}

DataFrames ==
    { [type |-> "Data", stream_id |-> 1, end_stream |-> e, padding_len |-> p, data |-> d] :
        e \in BOOLEAN, p \in PaddingLens, d \in {<<>>, <<5, 0>>} }

HeadersFrames ==
    { [type |-> "Headers", stream_id |-> 3, end_stream |-> e[1], end_headers |-> e[2],
       priority |-> q, padding_len |-> p, fragment |-> d] :
        e \in {<<FALSE, TRUE>>, <<TRUE, FALSE>>}, q \in {<<>>, <<P0>>, <<P1>>},
        p \in PaddingLens, d \in {<<>>, <<130, 0>>} }

PushPromiseFrames ==
    { [type |-> "PushPromise", stream_id |-> 1, promise_stream_id |-> i, end_headers |-> e,
       padding_len |-> p, fragment |-> d] :
        i \in {2, 16777216 + 4}, e \in BOOLEAN, p \in PaddingLens, d \in {<<>>, <<130, 0>>} }

OtherFrames ==
    { PingFrame(FALSE, D1), PingFrame(TRUE, D2),
      SettingsSyn(<<>>), SettingsAck,
      SettingsSyn(<<[kind |-> "MaxConcurrentStreams", value |-> [hi |-> 0, lo |-> 100]],
                    [kind |-> "EnablePush", value |-> [hi |-> 0, lo |-> 0]]>>),
      [type |-> "Priority", stream_id |-> 1, priority |-> P0],
      [type |-> "Priority", stream_id |-> 5, priority |-> P1],
      [type |-> "RstStream", stream_id |-> 1, error |-> "Cancel"],
      [type |-> "RstStream", stream_id |-> 3, error |-> "NoError"],
      [type |-> "Goaway", last_stream_id |-> 0, error |-> "NoError", debug_data |-> <<>>],
      [type |-> "Goaway", last_stream_id |-> 5, error |-> "ProtocolError",
       debug_data |-> <<98, 121, 101>>],
      [type |-> "WindowUpdate", stream_id |-> 0, window_size_increment |-> 65535],
      [type |-> "WindowUpdate", stream_id |-> 1, window_size_increment |-> 1],
      [type |-> "Continuation", stream_id |-> 1, end_headers |-> TRUE, payload |-> <<>>],
      [type |-> "Continuation", stream_id |-> 1, end_headers |-> FALSE, payload |-> <<130, 0>>] }

\* the frames of the ten variants the codec is run on
CodecFrames == DataFrames \cup HeadersFrames \cup PushPromiseFrames \cup OtherFrames

\* a fresh FrameSink and a fresh FrameStream on the two ends of a
\* transport; one frame has been passed to the sink
InitCodec ==
    /\ is_settings_received = FALSE
    /\ events = <<>>
    /\ streams = {}
    /\ next_peer_stream_id = 1
    /\ \E f \in CodecFrames : sink = FrameSink_start_send(FrameSink_new, f)
    /\ stream = [max_frame_size |-> DEFAULT_MAX_FRAME_SIZE,
                 future |-> NewReadFrame(DEFAULT_MAX_FRAME_SIZE, 0)]
    /\ channels = <<>>
    /\ inbound = <<>>
    /\ wire = <<>>
    /\ written = <<>>
    /\ consumed = 0
    /\ accept = [got |-> PREFACE_BYTES]
    /\ status = "running"
    /\ ret = [res |-> "None", event |-> NoFrame]
    /\ returned = <<>>
    /\ failed = FALSE
    /\ calls = <<>>
    /\ headers = <<>>
    /\ menu = {}
    /\ nsent = 0
    /\ pinged = {}

\* the state after FrameSink::poll_complete left c: the bytes the writer
\* accepted are on their way to the reader
Flushed(c) ==
    /\ sink' = c.sink
    /\ written' = c.written
    /\ wire' = wire \o Drop(c.written, Len(written))

\* FrameSink::poll_complete with a writer that accepts `writable` bytes
Flush(writable) ==
    /\ status = "running"
    /\ sink.state = "Writing"
    /\ Flushed(FrameSink_poll_complete(Conn(0, writable)))
    /\ UNCHANGED <<is_settings_received, events, streams, next_peer_stream_id, stream,
                   channels, inbound, consumed, accept, status, ret, returned, failed,
                   calls, headers, menu, nsent, pinged>>

\* the state after FrameStream::poll with outcome r
Received(r) ==
    /\ stream' = r.c.stream
    /\ inbound' = r.c.inbound
    /\ consumed' = r.c.consumed
    /\ headers' = r.c.headers
    /\ ret' = [res |-> r.res, event |-> r.frame]
    /\ returned' = IF r.res = "Frame" THEN Append(returned, r.frame) ELSE returned
    /\ failed' = (failed \/ r.res \notin {"Frame", "NotReady", "Abort"})
    /\ status' = IF r.res = "Abort" THEN "aborted" ELSE "running"

\* FrameStream::poll when `arrived` more bytes have reached the reader; a
\* stream that has given an error is not polled again
Receive(arrived) ==
    /\ status = "running"
    /\ ~failed
    /\ Received(FrameStream_poll(Conn(arrived, 0)))
    /\ wire' = Drop(wire, arrived)
    /\ UNCHANGED <<is_settings_received, events, streams, next_peer_stream_id, sink,
                   channels, written, accept, calls, menu, nsent, pinged>>

NextCodec ==
    \/ \E writable \in {WChunk, WAll} : Flush(writable)
    \/ \E arrived \in {Min(Chunk, Len(wire)), Len(wire)} : Receive(arrived)

SpecCodec == InitCodec /\ [][NextCodec]_vars

---------------------------------------------------------------------------
(* The decoder on its own: a FrameStream reads the bytes a peer has sent,  *)
(* which arrive in pieces.                                                 *)

\* the content of a padded frame and its padding, n bytes in all
Body(n) == [i \in 1..n |-> 7]

\* PADDED frames of the three padded types on stream 1: pad length N and
\* r bytes after the pad-length octet and the fixed fields
PaddedInputs ==
    UNION { { Raw(1 + r, FRAME_TYPE_DATA, FLAG_PADDED + FLAG_END_STREAM, 1, <<N>> \o Body(r)),
              Raw(1 + r, FRAME_TYPE_HEADERS, FLAG_PADDED + FLAG_END_HEADERS, 1,
                  <<N>> \o Body(r)),
              Raw(6 + r, FRAME_TYPE_HEADERS, FLAG_PADDED + FLAG_PRIORITY, 1,
                  <<N>> \o <<0, 0, 0, 3, 15>> \o Body(r)),
              Raw(5 + r, FRAME_TYPE_PUSH_PROMISE, FLAG_PADDED, 1,
                  <<N>> \o <<0, 0, 0, 2>> \o Body(r)) } :
            N \in {0, 1, 2, 3, 255}, r \in {0, 1, 2, 3} }

\* u32 values around the bounds the settings are checked against
SettingValues ==
    { [hi |-> 0, lo |-> n] :
        n \in {0, 1, 2, 16383, 16384, 16385, 8388607, 8388608, 8388609,
                16777215, 16777216, 2147483647} }
        \cup {[hi |-> 1, lo |-> 0], [hi |-> 1, lo |-> 2147483647]}

\* a SETTINGS frame of one entry: a setting id, 7 and 255 unknown, and a value
OneSettingInputs ==
    { Raw(6, FRAME_TYPE_SETTINGS, 0, 0, U16BE(id) \o U32Bytes(v)) :
        id \in {SETTINGS_HEADER_TABLE_SIZE, SETTINGS_ENABLE_PUSH,
                 SETTINGS_MAX_CONCURRENT_STREAMS, SETTINGS_INITIAL_WINDOW_SIZE,
                 SETTINGS_MAX_FRAME_SIZE, SETTINGS_MAX_HEADER_LIST_SIZE, 7, 255},
        v \in SettingValues }

\* entries of a SETTINGS payload: HEADER_TABLE_SIZE 4096, the unknown id 7,
\* ENABLE_PUSH 2, INITIAL_WINDOW_SIZE 2^31, MAX_CONCURRENT_STREAMS 100
SettingEntries ==
    { <<0, 1, 0, 0, 16, 0>>, <<0, 7, 0, 0, 0, 1>>, <<0, 2, 0, 0, 0, 2>>,
      <<0, 4, 128, 0, 0, 0>>, <<0, 3, 0, 0, 0, 100>> }

\* a SETTINGS frame of three entries
ThreeSettingInputs ==
    { Raw(18, FRAME_TYPE_SETTINGS, 0, 0, e1 \o e2 \o e3) : e1, e2, e3 \in SettingEntries }

SettingKinds ==
    {"HeaderTableSize", "EnablePush", "MaxConcurrentStreams", "InitialWindowSize",
     "MaxFrameSize", "MaxHeaderListSize"}

\* the Setting values of the variants, a bool for EnablePush
AllSettings ==
    { s \in [kind : SettingKinds, value : SettingValues] :
        s.kind = "EnablePush" => (s.value.hi = 0 /\ s.value.lo \in {0, 1}) }

\* a SETTINGS frame whose payload is Setting::to_bytes of one Setting
EncodedSettingInputs ==
    { Raw(6, FRAME_TYPE_SETTINGS, 0, 0, Setting_to_bytes(s)) : s \in AllSettings }

\* WINDOW_UPDATE frames on stream 0 and on streams 1 and 2: payloads of
\* four bytes with the reserved bit clear and set, and of other lengths
WindowUpdateInputs ==
    { Raw(4, FRAME_TYPE_WINDOW_UPDATE, 0, sid, b) :
        sid \in {0, 1, 2},
        b \in { <<0, 0, 0, 0>>, <<128, 0, 0, 0>>, <<0, 0, 0, 1>>, <<128, 0, 0, 1>>,
                 <<127, 255, 255, 255>>, <<255, 255, 255, 255>>, <<0, 1, 0, 0>> } }
        \cup { Raw(n, FRAME_TYPE_WINDOW_UPDATE, 0, sid, Body(n)) :
                  sid \in {0, 1}, n \in {0, 3, 5, 8} }

\* four-byte error codes: 0x0 .. 0xf, and codes with higher octets set
ErrorCodes ==
    { <<0, 0, 0, n>> : n \in 0..15 }
        \cup { <<0, 0, 0, 255>>, <<0, 0, 1, 0>>, <<0, 0, 1, 1>>, <<0, 1, 0, 13>>,
                <<1, 0, 0, 8>>, <<128, 0, 0, 0>>, <<128, 0, 0, 1>>, <<255, 255, 255, 255>> }

\* RST_STREAM frames on stream 1 and GOAWAY frames, one for each error code
ErrorCodeInputs ==
    { Raw(4, FRAME_TYPE_RST_STREAM, 0, 1, code) : code \in ErrorCodes }
        \cup { Raw(8, FRAME_TYPE_GOAWAY, 0, 0, <<0, 0, 0, 1>> \o code) : code \in ErrorCodes }

\* four bytes that hold a stream id, with the reserved bit clear and set
StreamIdBytes ==
    { <<0, 0, 0, 0>>, <<0, 0, 0, 1>>, <<128, 0, 0, 0>>, <<128, 0, 0, 1>>, <<128, 0, 0, 2>>,
      <<127, 255, 255, 255>>, <<255, 255, 255, 255>> }

\* a frame header with the stream id given as four bytes
RawOn(payload_length, frame_type, flags, id, payload) ==
    U24BE(payload_length) \o <<frame_type, flags>> \o id \o payload

\* frames with the stream id of the header, the promised stream id, the
\* last stream id or the stream dependency taken from StreamIdBytes
StreamIdInputs ==
    UNION { { RawOn(1, FRAME_TYPE_DATA, 0, id, <<5>>),
              RawOn(0, FRAME_TYPE_SETTINGS, 0, id, <<>>),
              RawOn(4, FRAME_TYPE_WINDOW_UPDATE, 0, id, <<0, 0, 0, 1>>),
              RawOn(0, FRAME_TYPE_CONTINUATION, FLAG_END_HEADERS, id, <<>>),
              Raw(4, FRAME_TYPE_PUSH_PROMISE, FLAG_END_HEADERS, 1, id),
              Raw(8, FRAME_TYPE_GOAWAY, 0, 0, id \o <<0, 0, 0, 0>>),
              Raw(5, FRAME_TYPE_PRIORITY, 0, 1, id \o <<15>>),
              Raw(6, FRAME_TYPE_HEADERS, FLAG_PRIORITY + FLAG_END_HEADERS, 1,
                  id \o <<15, 130>>) } :
            id \in StreamIdBytes }

\* frames whose payload_length is too short for the fields their type and
\* flags announce
ShortInputs ==
    { Raw(4, FRAME_TYPE_GOAWAY, 0, 0, <<0, 0, 0, 5>>),
      Raw(0, FRAME_TYPE_GOAWAY, 0, 0, <<>>),
      Raw(2, FRAME_TYPE_PUSH_PROMISE, FLAG_END_HEADERS, 1, <<0, 0>>),
      Raw(4, FRAME_TYPE_PUSH_PROMISE, FLAG_END_HEADERS + FLAG_PADDED, 1, <<0, 0, 0, 0>>),
      Raw(0, FRAME_TYPE_DATA, FLAG_PADDED, 1, <<>>),
      Raw(0, FRAME_TYPE_HEADERS, FLAG_END_HEADERS + FLAG_PADDED, 1, <<>>),
      Raw(3, FRAME_TYPE_HEADERS, FLAG_END_HEADERS + FLAG_PRIORITY, 1, <<0, 0, 0>>),
      Raw(5, FRAME_TYPE_HEADERS, FLAG_END_HEADERS + FLAG_PRIORITY + FLAG_PADDED, 1,
          <<0, 0, 0, 0, 0>>) }

\* PRIORITY, RST_STREAM and SETTINGS frames with a right and a wrong
\* payload length, on stream 0 and on stream 1
ConstraintInputs ==
    { Raw(Len(payload), FRAME_TYPE_PRIORITY, 0, id, payload) :
        id \in {0, 1}, payload \in {<<0, 0, 0, 0>>, <<0, 0, 0, 0, 15>>, <<0, 0, 0, 0, 15, 0>>} }
    \cup
    { Raw(Len(payload), FRAME_TYPE_RST_STREAM, 0, id, payload) :
        id \in {0, 1}, payload \in {<<0, 0, 8>>, <<0, 0, 0, 8>>, <<0, 0, 0, 0, 8>>} }
    \cup
    { Raw(Len(payload), FRAME_TYPE_SETTINGS, 0, id, payload) :
        id \in {0, 1}, payload \in {<<>>, <<0, 3, 0, 0, 0>>, <<0, 3, 0, 0, 0, 100>>,
                                    <<0, 3, 0, 0, 0, 100, 0>>} }

\* what the peer sends in one run: one frame, and a PING after it
DecodeInputs ==
    { b \o RawPing :
        b \in PaddedInputs \cup OneSettingInputs \cup ThreeSettingInputs
                 \cup EncodedSettingInputs \cup WindowUpdateInputs \cup ErrorCodeInputs
                 \cup StreamIdInputs \cup ShortInputs \cup ConstraintInputs
                 \cup { Raw(11, FRAME_TYPE_GOAWAY, 0, 0, <<0, 0, 0, 5, 0, 0, 0, 1, 98, 121, 101>>),
                        Raw(3, FRAME_TYPE_CONTINUATION, 0, 1, <<130, 0, 7>>),
                        Raw(2, FRAME_TYPE_DATA, FLAG_END_STREAM, 1, <<5, 0>>),
                        RawOversized } }

\* a fresh FrameStream on a transport the peer has written to
InitDecode ==
    /\ is_settings_received = FALSE
    /\ events = <<>>
    /\ streams = {}
    /\ next_peer_stream_id = 1
    /\ sink = FrameSink_new
    /\ stream = [max_frame_size |-> DEFAULT_MAX_FRAME_SIZE,
                 future |-> NewReadFrame(DEFAULT_MAX_FRAME_SIZE, 0)]
    /\ channels = <<>>
    /\ inbound = <<>>
    /\ wire \in DecodeInputs
    /\ written = <<>>
    /\ consumed = 0
    /\ accept = [got |-> PREFACE_BYTES]
    /\ status = "running"
    /\ ret = [res |-> "None", event |-> NoFrame]
    /\ returned = <<>>
    /\ failed = FALSE
    /\ calls = <<>>
    /\ headers = <<>>
    /\ menu = {}
    /\ nsent = 0
    /\ pinged = {}

\* the state after FrameSink::poll_complete left c
Drained(c) ==
    /\ sink' = c.sink
    /\ written' = c.written

\* the frames the stream has returned are passed on to a FrameSink in the
\* order they were read: FrameSink::start_send of the next one once the
\* sink is idle, and FrameSink::poll_complete
Echo(writable) ==
    /\ status = "running"
    /\ sink.state = "Idle"
    /\ Len(sink.sent) < Len(returned)
    /\ Drained(FrameSink_poll_complete(
           [Conn(0, writable) EXCEPT
               !.sink = FrameSink_start_send(sink, returned[Len(sink.sent) + 1])]))
    /\ UNCHANGED <<is_settings_received, events, streams, next_peer_stream_id, stream,
                   channels, inbound, wire, consumed, accept, status, ret, returned, failed,
                   calls, headers, menu, nsent, pinged>>

\* FrameSink::poll_complete while a frame is being written
Drain(writable) ==
    /\ status = "running"
    /\ sink.state = "Writing"
    /\ Drained(FrameSink_poll_complete(Conn(0, writable)))
    /\ UNCHANGED <<is_settings_received, events, streams, next_peer_stream_id, stream,
                   channels, inbound, wire, consumed, accept, status, ret, returned, failed,
                   calls, headers, menu, nsent, pinged>>

\* the sizes FrameStream::set_max_frame_size is called with
FrameSizes == {2, DEFAULT_MAX_FRAME_SIZE + 1}

\* FrameStream::set_max_frame_size(size), called while the limit is the
\* default one
SetMaxFrameSize(size) ==
    /\ status = "running"
    /\ ~failed
    /\ stream.max_frame_size = DEFAULT_MAX_FRAME_SIZE
    /\ stream' = [stream EXCEPT !.max_frame_size = size]
    /\ UNCHANGED <<is_settings_received, events, streams, next_peer_stream_id, sink,
                   channels, inbound, wire, written, consumed, accept, status, ret,
                   returned, failed, calls, headers, menu, nsent, pinged>>

NextDecode ==
    \/ \E size \in FrameSizes : SetMaxFrameSize(size)
    \/ \E arrived \in {Min(1, Len(wire)), Min(Chunk, Len(wire)), Len(wire)} : Receive(arrived)
    \/ \E writable \in {WChunk, WAll} : Echo(writable)
    \/ \E writable \in {WAll} : Drain(writable)

SpecDecode == InitDecode /\ [][NextDecode]_vars

---------------------------------------------------------------------------
(* The decoders and value types that the connection does not call: the     *)
(* one-shot decoders of src/frame.rs, src/frame/priority.rs and            *)
(* src/frame2/rst_stream.rs, Header::fields and Priority / Weight.  Each   *)
(* run applies them to one argument: menu holds the argument, calls the    *)
(* log of the calls made with their results.                               *)

\* byteorder's read_u32 and read_u8 on a slice, as Priority::read_from of
\* src/frame.rs calls them: an io::Error when the slice is too short, else
\* the priority and the rest of the slice
frame_Priority_read_from(bytes) ==
    IF Len(bytes) < 5 THEN [res |-> "Io", priority |-> <<>>, rest |-> <<>>]
    ELSE [res |-> "Ok",
          priority |-> <<[exclusive |-> ReadU32(SubSeq(bytes, 1, 4)).hi = 1,
                          stream_dependency |-> ReadU32(SubSeq(bytes, 1, 4)).lo,
                          weight_minus_one |-> bytes[5]]>>,
          rest |-> Drop(bytes, 5)]

\* HeadersFrame::read_from of src/frame.rs, after the pad length and the
\* priority: fragment_len bytes of fragment, then padding_len of padding
frame_HeadersFrame_fragment(rest, fragment_len, padding_len, priority) ==
    IF fragment_len < 0 THEN [res |-> "Abort", frame |-> NoFrame]
    ELSE IF Len(rest) < fragment_len THEN [res |-> "Io", frame |-> NoFrame]
    ELSE IF Len(rest) - fragment_len < padding_len THEN [res |-> "Io", frame |-> NoFrame]
    ELSE [res |-> "Ok",
          frame |-> [priority |-> priority,
                     fragment |-> Take(rest, fragment_len),
                     padding |-> SubSeq(rest, fragment_len + 1, fragment_len + padding_len)]]

\* HeadersFrame::read_from of src/frame.rs, after the pad length: the
\* priority, for which fragment_len -= 4.  A subtraction that underflows
\* panics (overflow checks are on in the build that runs the tests).
frame_HeadersFrame_priority(rest, flags, fragment_len, padding_len) ==
    IF fragment_len < 0 THEN [res |-> "Abort", frame |-> NoFrame]
    ELSE IF ~HasFlag(flags, FLAG_PRIORITY)
    THEN frame_HeadersFrame_fragment(rest, fragment_len, padding_len, <<>>)
    ELSE IF fragment_len - 4 < 0 THEN [res |-> "Abort", frame |-> NoFrame]
    ELSE IF frame_Priority_read_from(rest).res # "Ok" THEN [res |-> "Io", frame |-> NoFrame]
    ELSE frame_HeadersFrame_fragment(frame_Priority_read_from(rest).rest,
                                     fragment_len - 4, padding_len,
                                     frame_Priority_read_from(rest).priority)

\* HeadersFrame::read_from of src/frame.rs on a reader that holds `bytes`
frame_HeadersFrame_read_from(bytes, header) ==
    IF ~HasFlag(header.flags, FLAG_PADDED)
    THEN frame_HeadersFrame_priority(bytes, header.flags, header.payload_length, 0)
    ELSE IF header.payload_length - 1 < 0 THEN [res |-> "Abort", frame |-> NoFrame]
    ELSE IF bytes = <<>> THEN [res |-> "Io", frame |-> NoFrame]
    ELSE frame_HeadersFrame_priority(Tail(bytes), header.flags,
                                     (header.payload_length - 1) - bytes[1], bytes[1])

\* read_headers_frame of src/frame.rs polled to its end on a reader that
\* holds `bytes`: one ReadExact of payload_length bytes, then
\* HeadersFrame::read_from on them
read_headers_frame(bytes, header) ==
    IF Len(bytes) < header.payload_length THEN [res |-> "Io", frame |-> NoFrame]
    ELSE frame_HeadersFrame_read_from(Take(bytes, header.payload_length), header)

\* well-formed HEADERS payloads: every combination of PADDED and PRIORITY,
\* with the parts they are made of
HeadersPayloads ==
    { [op |-> "read_headers_frame",
       header |-> [payload_length |-> Len(pad.bytes) + Len(pri.bytes) + Len(fragment)
                                         + Len(pad.padding),
                   frame_type |-> FRAME_TYPE_HEADERS,
                   flags |-> FLAG_END_HEADERS + pad.flag + pri.flag, stream_id |-> 1],
       bytes |-> pad.bytes \o pri.bytes \o fragment \o pad.padding \o more,
       want |-> [priority |-> pri.priority, fragment |-> fragment,
                 padding |-> pad.padding]] :
        pad \in { [flag |-> 0, bytes |-> <<>>, padding |-> <<>>],
                  [flag |-> FLAG_PADDED, bytes |-> <<0>>, padding |-> <<>>],
                  [flag |-> FLAG_PADDED, bytes |-> <<2>>, padding |-> <<0, 0>>] },
        pri \in { [flag |-> 0, bytes |-> <<>>, priority |-> <<>>],
                  [flag |-> FLAG_PRIORITY, bytes |-> <<0, 0, 0, 0, 15>>,
                   priority |-> <<[exclusive |-> FALSE, stream_dependency |-> 0,
                                   weight_minus_one |-> 15]>>],
                  [flag |-> FLAG_PRIORITY, bytes |-> <<128, 0, 0, 3, 255>>,
                   priority |-> <<[exclusive |-> TRUE, stream_dependency |-> 3,
                                   weight_minus_one |-> 255]>>] },
        fragment \in {<<>>, <<130>>, <<130, 134, 69>>},
        more \in {<<>>, RawPing} }

\* PriorityFrame::from_vec of src/frame/priority.rs
PriorityFrame_from_vec(header, payload) ==
    IF ~is_connection_control_stream(header.stream_id)
    THEN [res |-> "ProtocolError", frame |-> NoFrame]
    ELSE IF Len(payload) # 5 THEN [res |-> "FrameSizeError", frame |-> NoFrame]
    ELSE [res |-> "Ok",
          frame |-> [type |-> "Priority", stream_id |-> header.stream_id,
                     priority |-> Priority_from_bytes(payload)]]

\* RstStreamFrame::from_vec of src/frame2/rst_stream.rs; read_u32 takes the
\* first four bytes of the slice
RstStreamFrame_from_vec(header, payload) ==
    IF ~(header.stream_id # 0) THEN [res |-> "ProtocolError", frame |-> NoFrame]
    ELSE IF Len(payload) # 5 THEN [res |-> "FrameSizeError", frame |-> NoFrame]
    ELSE [res |-> "Ok",
          frame |-> [type |-> "RstStream", stream_id |-> header.stream_id,
                     error |-> Error_from_code(ReadU32(SubSeq(payload, 1, 4)))]]

\* the one-shot decoder of the frame type of the header
from_vec(header, payload) ==
    IF header.frame_type = FRAME_TYPE_PRIORITY THEN PriorityFrame_from_vec(header, payload)
    ELSE RstStreamFrame_from_vec(header, payload)

\* the streaming decoder on the same header and payload: "Ok" with the
\* frame, or the error
Streamed(r) ==
    IF r.res = "Frame" THEN [res |-> "Ok", frame |-> r.frame]
    ELSE [res |-> r.res, frame |-> NoFrame]

\* PRIORITY and RST_STREAM headers with a payload of payload_length bytes
FromVecInputs ==
    { [op |-> "from_vec",
       header |-> [payload_length |-> Len(payload), frame_type |-> t, flags |-> 0,
                   stream_id |-> id],
       payload |-> payload] :
        t \in {FRAME_TYPE_PRIORITY, FRAME_TYPE_RST_STREAM},
        id \in {0, 1, 3},
        payload \in {<<>>, <<0, 0, 8>>, <<0, 0, 0, 8>>, <<128, 0, 0, 1>>,
                     <<0, 0, 0, 0, 15>>, <<128, 0, 0, 3, 255>>, <<0, 0, 0, 0, 0, 0>>} }

\* the loop of Header::decode over the fields the HPACK decoder gives: the
\* name and the value of each field are appended to buf, and the offsets
\* of the two are kept
RECURSIVE Header_decode_loop(_, _, _)
Header_decode_loop(decoded, fields, buf) ==
    IF decoded = <<>> THEN [fields |-> fields, buf |-> buf]
    ELSE Header_decode_loop(Tail(decoded),
             Append(fields, [name_offset |-> Len(buf),
                             value_offset |-> Len(buf) + Len(Head(decoded).name)]),
             buf \o Head(decoded).name \o Head(decoded).value)

\* Header::fields
Header_fields(header) == [index |-> 0, header |-> header]

\* the slice buf[from..to]
Slice(buf, from, to) == SubSeq(buf, from + 1, to)

\* Header::get_field in which every value runs to the end of buf
Header_get_field_ToEnd(header, index) ==
    IF index < Len(header.fields)
    THEN [type |-> "Some",
          name |-> Slice(header.buf, header.fields[index + 1].name_offset,
                         header.fields[index + 1].value_offset),
          value |-> Slice(header.buf, header.fields[index + 1].value_offset,
                          Len(header.buf))]
    ELSE [type |-> "None"]

\* Header::get_field; fields and buf are indexed from 0 in the source
Header_get_field(header, index) ==
    IF index < Len(header.fields)
    THEN [type |-> "Some",
          name |-> Slice(header.buf, header.fields[index + 1].name_offset,
                         header.fields[index + 1].value_offset),
          value |-> Slice(header.buf, header.fields[index + 1].value_offset,
                          IF index + 1 < Len(header.fields)
                          THEN header.fields[index + 2].name_offset
                          ELSE Len(header.buf))]
    ELSE [type |-> "None"]

\* Fields::next: the item and the iterator after the call
Fields_next(it) ==
    IF Header_get_field(it.header, it.index).type = "Some"
    THEN [item |-> Header_get_field(it.header, it.index),
          it |-> [it EXCEPT !.index = @ + 1]]
    ELSE [item |-> [type |-> "None"], it |-> it]

\* the longest field list of the model
MaxFields == 2

\* the names and values of the fields: empty, one byte, two bytes
FieldBytes == {<<>>, <<97>>, <<98, 99>>}

\* the field lists the HPACK decoder gives for the header blocks of the model
RECURSIVE FieldLists(_)
FieldLists(n) ==
    IF n = 0 THEN {<<>>}
    ELSE FieldLists(n - 1)
            \cup { Append(l, [name |-> name, value |-> value]) :
                      l \in {m \in FieldLists(n - 1) : Len(m) = n - 1},
                      name \in FieldBytes, value \in FieldBytes }

FieldsInputs == { [op |-> "fields", decoded |-> l] : l \in FieldLists(MaxFields) }

\* Weight::new on a u16: the Weight holds weight - 1 as a u8
Weight_new(weight) ==
    IF ~(weight # 0) THEN [res |-> "InternalError", weight |-> 0]
    ELSE IF ~(weight < 257) THEN [res |-> "InternalError", weight |-> 0]
    ELSE [res |-> "Ok", weight |-> (weight - 1) % 256]

\* Weight::as_u16
Weight_as_u16(w) == w + 1

\* the largest stream id
MAX_STREAM_ID == 2147483647

\* priorities as the application makes them: the flag, a 31-bit stream
\* dependency and a weight that Weight::new accepts
PriorityInputs ==
    { [op |-> "to_bytes",
       priority |-> [is_exclusive |-> e, stream_dependency |-> d,
                     weight |-> Weight_new(w).weight],
       weight |-> w] :
        e \in BOOLEAN, d \in {0, 1, 3, 255, 256, 16777216, MAX_STREAM_ID},
        w \in {1, 2, 16, 255, 256} }

\* five bytes as they come off the transport
PriorityBytesInputs ==
    { [op |-> "from_bytes", bytes |-> <<b1, b2, 0, b4, b5>>] :
        b1 \in {0, 127, 128, 255}, b2 \in {0, 255}, b4 \in {0, 3, 255},
        b5 \in {0, 15, 255} }

\* the u16 values Weight::new is called with
WeightInputs ==
    { [op |-> "weight", weight |-> w] : w \in {0, 1, 2, 16, 255, 256, 257, 258, 65535} }

\* what the calls of a run are made on
UnitInputs ==
    HeadersPayloads \cup FromVecInputs \cup FieldsInputs \cup PriorityInputs
        \cup PriorityBytesInputs \cup WeightInputs

\* nothing has been called yet
InitUnit ==
    /\ is_settings_received = FALSE
    /\ events = <<>>
    /\ streams = {}
    /\ next_peer_stream_id = 1
    /\ sink = FrameSink_new
    /\ stream = [max_frame_size |-> DEFAULT_MAX_FRAME_SIZE,
                 future |-> NewReadFrame(DEFAULT_MAX_FRAME_SIZE, 0)]
    /\ channels = <<>>
    /\ inbound = <<>>
    /\ wire = <<>>
    /\ written = <<>>
    /\ consumed = 0
    /\ accept = [got |-> PREFACE_BYTES]
    /\ status = "running"
    /\ ret = [res |-> "None", event |-> NoFrame]
    /\ returned = <<>>
    /\ failed = FALSE
    /\ calls = <<>>
    /\ headers = <<>>
    /\ menu \in UnitInputs
    /\ nsent = 0
    /\ pinged = {}

\* the call is logged with its result
Called(entry) ==
    /\ calls' = Append(calls, entry)
    /\ UNCHANGED <<is_settings_received, events, streams, next_peer_stream_id, sink,
                   stream, channels, inbound, wire, written, consumed, accept, status,
                   ret, returned, failed, headers, menu, nsent, pinged>>

\* read_headers_frame(reader, header).wait(), as the test of the crate
\* calls it
ReadHeaders ==
    /\ menu.op = "read_headers_frame"
    /\ calls = <<>>
    /\ Called([op |-> menu.op, out |-> read_headers_frame(menu.bytes, menu.header)])

\* the payload of a frame is handed to from_vec with its header, and the
\* same header and payload are read by Frame::read_from
FromVec ==
    /\ menu.op = "from_vec"
    /\ calls = <<>>
    /\ Called([op |-> menu.op,
               out |-> from_vec(menu.header, menu.payload),
               streamed |-> Streamed(Frame_read_from(
                   Raw(menu.header.payload_length, menu.header.frame_type,
                       menu.header.flags, menu.header.stream_id, menu.payload),
                   DEFAULT_MAX_FRAME_SIZE))])

\* Header::decode on a block that decodes to menu.decoded, and fields() on
\* the header: the iterator is kept in `stream`
HeaderDecode ==
    /\ menu.op = "fields"
    /\ calls = <<>>
    /\ stream' = Header_fields(Header_decode_loop(menu.decoded, <<>>, <<>>))
    /\ calls' = Append(calls, [op |-> "decode"])
    /\ UNCHANGED <<is_settings_received, events, streams, next_peer_stream_id, sink,
                   channels, inbound, wire, written, consumed, accept, status,
                   ret, returned, failed, headers, menu, nsent, pinged>>

\* Fields::next on the iterator; the items it gives are kept in
\* `returned`.  The iterator is called until it has given None twice.
FieldsNext ==
    /\ menu.op = "fields"
    /\ calls # <<>>
    /\ IF Len(returned) < 2 THEN TRUE ELSE returned[Len(returned) - 1].type # "None"
    /\ stream' = Fields_next(stream).it
    /\ returned' = Append(returned, Fields_next(stream).item)
    /\ calls' = Append(calls, [op |-> "next"])
    /\ UNCHANGED <<is_settings_received, events, streams, next_peer_stream_id, sink,
                   channels, inbound, wire, written, consumed, accept, status,
                   ret, failed, headers, menu, nsent, pinged>>

\* Priority::to_bytes, and Priority::from_bytes on what it gives
PriorityToBytes ==
    /\ menu.op = "to_bytes"
    /\ calls = <<>>
    /\ Called([op |-> menu.op, bytes |-> Priority_to_bytes(menu.priority),
               back |-> Priority_from_bytes(Priority_to_bytes(menu.priority))])

\* Priority::from_bytes, and Priority::to_bytes on what it gives
PriorityFromBytes ==
    /\ menu.op = "from_bytes"
    /\ calls = <<>>
    /\ Called([op |-> menu.op, priority |-> Priority_from_bytes(menu.bytes),
               back |-> Priority_to_bytes(Priority_from_bytes(menu.bytes))])

\* Weight::new, and as_u16 on the Weight when there is one
WeightNew ==
    /\ menu.op = "weight"
    /\ calls = <<>>
    /\ Called([op |-> menu.op, out |-> Weight_new(menu.weight),
               as_u16 |-> Weight_as_u16(Weight_new(menu.weight).weight)])

NextUnit ==
    \/ ReadHeaders
    \/ FromVec
    \/ HeaderDecode
    \/ FieldsNext
    \/ PriorityToBytes
    \/ PriorityFromBytes
    \/ WeightNew

SpecUnit == InitUnit /\ [][NextUnit]_vars

---------------------------------------------------------------------------
(* FrameSink on its own: any sequence of start_send and poll_complete, on  *)
(* a writer that accepts some bytes and then blocks or fails.              *)

\* the number of frames handed to the sink in one run
MaxQueued == 3

\* the frames handed to the sink
SinkItems ==
    { SettingsSyn(<<>>), PingFrame(FALSE, D1),
      [type |-> "Data", stream_id |-> 1, end_stream |-> TRUE, padding_len |-> None,
       data |-> <<5, 6, 7>>] }

\* FrameSink::new(writer)
InitSink ==
    /\ is_settings_received = FALSE
    /\ events = <<>>
    /\ streams = {}
    /\ next_peer_stream_id = 1
    /\ sink = FrameSink_new
    /\ stream = [max_frame_size |-> DEFAULT_MAX_FRAME_SIZE,
                 future |-> NewReadFrame(DEFAULT_MAX_FRAME_SIZE, 0)]
    /\ channels = <<>>
    /\ inbound = <<>>
    /\ wire = <<>>
    /\ written = <<>>
    /\ consumed = 0
    /\ accept = [got |-> PREFACE_BYTES]
    /\ status = "running"
    /\ ret = [res |-> "None", event |-> NoFrame]
    /\ returned = <<>>
    /\ failed = FALSE
    /\ calls = <<>>
    /\ headers = <<>>
    /\ menu = {}
    /\ nsent = 0
    /\ pinged = {}

\* the state after a call on the sink left it as sk: unreachable!() has
\* unwound the thread when the call gave Abort, and a write error is
\* remembered
SinkCalled(c) ==
    /\ sink' = c.sink
    /\ written' = c.written
    /\ status' = IF c.sink.last.res = "Abort" THEN "aborted" ELSE status
    /\ failed' = (failed \/ c.sink.last.res = "Io")
    /\ UNCHANGED <<is_settings_received, events, streams, next_peer_stream_id, stream,
                   channels, inbound, wire, consumed, accept, ret, returned,
                   calls, headers, menu, nsent, pinged>>

\* FrameSink::start_send(item)
StartSend(item) ==
    /\ status = "running"
    /\ Len(sink.sent) < MaxQueued
    /\ SinkCalled([Conn(0, 0) EXCEPT !.sink = FrameSink_start_send(sink, item)])

\* FrameSink::poll_complete on a writer that accepts `writable` bytes and
\* then blocks
PollComplete(writable) ==
    /\ status = "running"
    /\ SinkCalled(FrameSink_poll_complete(Conn(0, writable)))

\* FrameSink::poll_complete on a writer that accepts `writable` bytes and
\* then gives an error
PollCompleteFails(writable) ==
    /\ status = "running"
    /\ SinkCalled(FrameSink_poll_complete_failing(Conn(0, writable)))

\* FrameSink::poll_complete once a write has failed: the WriteFrame that
\* gave the error is polled again, which a future that has completed does
\* not have to bear; the poll may panic (it may also write on or fail
\* again, as above).  The sink is as it was.
PollCompletePanics ==
    /\ status = "running"
    /\ failed
    /\ sink.state = "Writing"
    /\ status' = "aborted"
    /\ UNCHANGED <<is_settings_received, events, streams, next_peer_stream_id, sink,
                   stream, channels, inbound, wire, written, consumed, accept, ret,
                   returned, failed, calls, headers, menu, nsent, pinged>>

NextSink ==
    \/ \E item \in SinkItems : StartSend(item)
    \/ \E writable \in {0, WChunk, WAll} : PollComplete(writable)
    \/ \E writable \in {0, WChunk} : PollCompleteFails(writable)
    \/ PollCompletePanics

SpecSink == InitSink /\ [][NextSink]_vars

---------------------------------------------------------------------------
(* Properties.  Each is stated over the log of handle_frame calls, the log *)
(* of header decisions of ReadFrame::poll, and the transport.              *)

\* the number of places of seq that hold x
Count(seq, x) == Cardinality({i \in DOMAIN seq : seq[i] = x})

\* the frames written completely to the transport, as header and payload
RECURSIVE WrittenFrames(_)
WrittenFrames(bytes) ==
    IF Len(bytes) < FRAME_HEADER_LEN THEN <<>>
    ELSE LET h == ReadFrameHeader_parse(Take(bytes, FRAME_HEADER_LEN))
             n == FRAME_HEADER_LEN + h.payload_length
         IN  IF Len(bytes) < n THEN <<>>
             ELSE <<[header |-> h,
                     payload |-> SubSeq(bytes, FRAME_HEADER_LEN + 1, n)]>>
                  \o WrittenFrames(Drop(bytes, n))

\* the highest stream id of the peer the connection has processed, 0 if none
HighestProcessed == IF streams = {} THEN 0
                    ELSE CHOOSE id \in streams : \A other \in streams : other <= id

\* C1 (as the specification states it): once the initial SETTINGS has been
\* written, a SETTINGS frame with ACK and an empty payload is handled by
\* handle_frame with Ok, leaves is_settings_received, the stream registry and
\* the event queue as they were, and the connection goes on running.
C1_SettingsAckAccepted ==
    \A i \in DOMAIN calls :
        LET k == calls[i] IN
        (k.frame = SettingsAck /\ k.written >= FRAME_HEADER_LEN)
            => /\ k.res = "Ok"
               /\ k.after = k.before
               /\ status = "running"

C3_PingAnswered ==
    \A i \in DOMAIN calls :
        LET k == calls[i] IN
        (k.frame.type = "Ping" /\ ~k.frame.ack /\ k.before.is_settings_received)
            => /\ k.res = "Ok"
               /\ k.after.sink = Append(k.before.sink, PingFrame(TRUE, k.frame.data))
               /\ k.after.events = k.before.events

\* C3, reached: a PING of the peer with data D1 was handled after SETTINGS
\* while the sink still held a frame, and its answer is the last frame of
\* the sink
C3_Reached ==
    \E i \in DOMAIN calls :
        /\ calls[i].frame = PingFrame(FALSE, D1)
        /\ calls[i].before.is_settings_received
        /\ calls[i].before.sink # <<>>
        /\ Len(calls[i].after.sink) = Len(calls[i].before.sink) + 1
        /\ calls[i].after.sink[Len(calls[i].after.sink)] = PingFrame(TRUE, D1)

\* the bytes of the frame the sink is writing: the part the writer has
\* accepted and the part that is pending
BytesOfCurrent ==
    LET n == Len(Frame_write_into(sink.cur)) - Len(sink.pending)
    IN  SubSeq(written, Len(written) - n + 1, Len(written)) \o sink.pending

\* C4 (as the specification states it): the header written for a PingFrame
\* p carries the flag ACK exactly when p.ack, and the bytes written for p,
\* read back by Frame::read_from, give p.  The PingFrames are the ones the
\* sink is writing.
C4_PingRoundTrip ==
    (sink.state = "Writing" /\ sink.cur.type = "Ping")
        => LET p == sink.cur
               r == Frame_read_from(BytesOfCurrent, DEFAULT_MAX_FRAME_SIZE)
           IN  /\ HasFlag(ReadFrameHeader_parse(BytesOfCurrent).flags, FLAG_ACK) <=> p.ack
               /\ r.res = "Frame"
               /\ r.frame = p

\* C5: after SETTINGS has been received, handling a PING with ack = true and
\* data D is Ok, appends exactly Pong(D) to the event queue and leaves the
\* frames of the sink as they were; and Connection::poll has returned
\* Pong(D) as often as such a PING has been handled.
C5_PongSurfaced ==
    /\ \A i \in DOMAIN calls :
           LET k == calls[i] IN
           (k.frame.type = "Ping" /\ k.frame.ack /\ k.before.is_settings_received)
               => /\ k.res = "Ok"
                  /\ k.after.events = Append(k.before.events, Pong(k.frame.data))
                  /\ k.after.sink = k.before.sink
    /\ \A data \in {D1, D2} :
           Count(returned, Pong(data))
               = Cardinality({i \in DOMAIN calls :
                                 /\ calls[i].frame = PingFrame(TRUE, data)
                                 /\ calls[i].before.is_settings_received})

\* C5, reached: a PING with ack = true and data D2 was handled after SETTINGS
\* and the poll returned Pong(D2)
C5_Reached ==
    /\ \E i \in DOMAIN calls :
           calls[i].frame = PingFrame(TRUE, D2) /\ calls[i].before.is_settings_received
    /\ ret = [res |-> "Event", event |-> Pong(D2)]
    /\ returned = <<Pong(D2)>>

\* the header decisions on PING frames that name a stream other than 0
PingsOnStream ==
    {i \in DOMAIN headers :
        headers[i].header.frame_type = FRAME_TYPE_PING /\ headers[i].header.stream_id # 0}

\* C6 (as the specification states it): a PING header with a non-zero stream
\* id is rejected by the frame reader with ProtocolError, whatever its flags
\* and its payload length.
C6_PingOnStreamProtocolError ==
    \A i \in PingsOnStream : headers[i].res = "ProtocolError"

\* C6: a PING header with a non-zero stream id is rejected by the frame
\* reader whatever its flags: with ProtocolError when its payload length is
\* 8, with FrameSizeError when it is not (the length checks come first).
C6_PingOnStreamRejected ==
    \A i \in PingsOnStream :
        headers[i].res = IF headers[i].header.payload_length = PING_PAYLOAD_LEN
                         THEN "ProtocolError" ELSE "FrameSizeError"

\* C6, reached: a PING with the flag ACK, eight bytes and a non-zero stream
\* id was rejected with ProtocolError, and the poll returned that error
C6_Reached ==
    \E i \in PingsOnStream :
        /\ HasFlag(headers[i].header.flags, FLAG_ACK)
        /\ headers[i].header.payload_length = PING_PAYLOAD_LEN
        /\ headers[i].res = "ProtocolError"
        /\ ret.res = "ProtocolError"

\* C7: a header whose payload_length is greater than the max_frame_size of
\* its ReadFrame is rejected with FrameSizeError whatever its type, when
\* exactly the nine bytes of the header have been read, and no byte is read
\* after it; a header whose payload_length equals max_frame_size is not
\* rejected with FrameSizeError by the size check (a DATA header of that
\* size goes on to read its payload); the first ReadFrame of a FrameStream
\* has max_frame_size 16384.
C7_FrameSizeLimit ==
    /\ \A i \in DOMAIN headers :
           LET e == headers[i] IN
           /\ e.header.payload_length > e.max_frame_size
                  => /\ e.res = "FrameSizeError"
                     /\ e.at = e.start + FRAME_HEADER_LEN
                     /\ consumed = e.at
           /\ (e.header.payload_length = e.max_frame_size
                  /\ e.header.frame_type = FRAME_TYPE_DATA /\ e.header.stream_id # 0)
                  => e.res = "Ok" /\ e.stage \in {"DataPad", "DataBody"}
    /\ headers # <<>> => headers[1].max_frame_size = 16384

\* C7, reached: a header of an unknown type with payload_length 16385 was
\* rejected with FrameSizeError, the poll returned that error, and the bytes
\* the peer sent after the header are unread
C7_Reached ==
    \E i \in DOMAIN headers :
        /\ headers[i].header.payload_length = DEFAULT_MAX_FRAME_SIZE + 1
        /\ headers[i].header.frame_type \notin 0..9
        /\ headers[i].res = "FrameSizeError"
        /\ ret.res = "FrameSizeError"
        /\ inbound # <<>>

\* C8 (as the specification states it): once a poll has returned a
\* connection error for an inbound frame, no later frame is handled, no
\* event is returned, and no poll aborts.
C8_NothingAfterFailure ==
    /\ \A i \in DOMAIN calls : ~calls[i].failed
    /\ failed => status = "running" /\ ret.res # "Event"

\* C9 (as the specification states it): when a poll returns a connection
\* error, the last frame written to the transport is a GOAWAY that carries
\* the error's code and the highest processed stream id of the peer, and
\* the sink has nothing left to write.
C9_GoawayBeforeError ==
    IsError(ret.res)
        => LET frames == WrittenFrames(written) IN
           /\ frames # <<>>
           /\ LET last == frames[Len(frames)] IN
              /\ last.header.frame_type = FRAME_TYPE_GOAWAY
              /\ Len(last.payload) >= 8
              /\ ReadU32(SubSeq(last.payload, 1, 4)).lo = HighestProcessed
              /\ Error_from_code(ReadU32(SubSeq(last.payload, 5, 8))) = ret.res
           /\ sink.state = "Idle"

\* C10 (as the specification states it): a header of a type outside 0..9
\* whose payload_length is within max_frame_size does not fail the reader:
\* the reader goes on, no frame is handled for it, and the connection goes on
\* running.
C10_UnknownTypeSkipped ==
    \A i \in DOMAIN headers :
        LET e == headers[i] IN
        (e.header.frame_type \notin 0..9 /\ e.header.payload_length <= e.max_frame_size)
            => /\ e.res = "Ok"
               /\ status = "running"
               /\ consumed >= e.at => ret.res \in {"NotReady", "Event", "None"}

\* C11 (as the specification states it): a HEADERS frame for a stream that is
\* not in the registry, whose id is not greater than every stream id the
\* peer has opened before, is answered with ProtocolError and adds no stream.
C11_StreamIdsIncrease ==
    \A i \in DOMAIN calls :
        LET k == calls[i] IN
        (/\ k.frame.type = "Headers"
         /\ k.before.is_settings_received
         /\ k.frame.stream_id \notin k.before.streams
         /\ \E id \in k.before.streams : k.frame.stream_id <= id)
            => k.res = "ProtocolError" /\ k.after.streams = k.before.streams

\* C12 (as the specification states it): a HEADERS frame that would open a
\* stream with an even id is answered with ProtocolError, and every id in
\* the registry is odd.
C12_PeerStreamsOdd ==
    /\ \A i \in DOMAIN calls :
           LET k == calls[i] IN
           (/\ k.frame.type = "Headers"
            /\ k.before.is_settings_received
            /\ k.frame.stream_id \notin k.before.streams
            /\ k.frame.stream_id % 2 = 0)
               => k.res = "ProtocolError" /\ k.after.streams = k.before.streams
    /\ \A id \in streams : id % 2 = 1

\* the header decisions on SETTINGS frames
SettingsHeaders == {i \in DOMAIN headers : headers[i].header.frame_type = FRAME_TYPE_SETTINGS}

\* C13 (as the specification states it): the SETTINGS decoder gives a frame
\* only for a header on stream 0 whose payload_length is a multiple of 6;
\* a SETTINGS header with the flag ACK and payload_length other than 0 is
\* rejected with FrameSizeError (at the header, or once its payload has been
\* read); one with ACK and payload_length 0 decodes to SettingsFrame::Ack.
C13_SettingsDecoder ==
    \A i \in SettingsHeaders :
        LET e == headers[i] IN
        /\ e.end = "Frame"
               => e.header.stream_id = 0 /\ e.header.payload_length % 6 = 0
        /\ (HasFlag(e.header.flags, FLAG_ACK) /\ e.header.payload_length # 0)
               => e.end \in {"FrameSizeError", "Pending"}
        /\ (HasFlag(e.header.flags, FLAG_ACK) /\ e.header.payload_length = 0
               /\ e.header.stream_id = 0)
               => e.end = "Frame" /\ e.frame = SettingsAck

\* C13: the SETTINGS decoder gives a frame only for a header on stream 0
\* whose payload_length is a multiple of 6: a payload_length that is no
\* multiple of 6 is rejected with FrameSizeError at the header, and a
\* non-zero stream id with a multiple of 6 within max_frame_size with
\* ProtocolError at the header.  On stream 0, a header with the flag ACK and
\* payload_length other than 0 is rejected with FrameSizeError: at the
\* header when the length is no multiple of 6 or exceeds max_frame_size,
\* else once the payload has been read; one with ACK and payload_length 0
\* decodes to SettingsFrame::Ack.
C13_SettingsDecoderOnStream0 ==
    \A i \in SettingsHeaders :
        LET e == headers[i]
            h == e.header
        IN  /\ e.end = "Frame" => h.stream_id = 0 /\ h.payload_length % 6 = 0
            /\ (h.payload_length % 6 # 0 \/ h.payload_length > e.max_frame_size)
                   => e.res = "FrameSizeError"
            /\ (h.payload_length % 6 = 0 /\ h.payload_length <= e.max_frame_size
                   /\ h.stream_id # 0)
                   => e.res = "ProtocolError"
            /\ (HasFlag(h.flags, FLAG_ACK) /\ h.payload_length # 0 /\ h.stream_id = 0)
                   => /\ e.end \in {"FrameSizeError", "Pending"}
                      /\ e.end = "Pending" => consumed < e.at + h.payload_length
            /\ (HasFlag(h.flags, FLAG_ACK) /\ h.payload_length = 0 /\ h.stream_id = 0)
                   => e.res = "Ok" /\ e.end = "Frame" /\ e.frame = SettingsAck

\* C13, reached: a SETTINGS header with ACK and six payload bytes on stream
\* 0 passed the header checks, its payload was read, the reader ended in
\* FrameSizeError and the poll returned that error
C13_Reached ==
    \E i \in SettingsHeaders :
        /\ HasFlag(headers[i].header.flags, FLAG_ACK)
        /\ headers[i].header.payload_length = 6
        /\ headers[i].header.stream_id = 0
        /\ headers[i].res = "Ok"
        /\ headers[i].end = "FrameSizeError"
        /\ consumed = headers[i].at + 6
        /\ ret.res = "FrameSizeError"

\* C14 (as the specification states it): handling a SETTINGS frame without
\* ACK, empty or not, is Ok and adds exactly one SETTINGS frame with ACK at
\* the end of the frames of the sink (behind the answers to the frames
\* handled before it).
C14_SettingsAcknowledged ==
    \A i \in DOMAIN calls :
        LET k == calls[i] IN
        (k.frame.type = "Settings" /\ ~k.frame.is_ack)
            => /\ k.res = "Ok"
               /\ k.after.is_settings_received
               /\ k.after.sink = Append(k.before.sink, SettingsAck)

\* the bytes Frame::write_into writes for a sequence of frames
RECURSIVE Encoded(_)
Encoded(frames) ==
    IF frames = <<>> THEN <<>> ELSE Frame_write_into(Head(frames)) \o Encoded(Tail(frames))

\* C15: whatever the application and the peer do, the bytes written to the
\* transport begin with the nine bytes of the server's SETTINGS frame
\* (length 0, type 4, no flags, stream 0): no byte of another frame comes
\* before them.
C15_SettingsFirst ==
    Take(written, FRAME_HEADER_LEN) = Take(<<0, 0, 0, 4, 0, 0, 0, 0, 0>>, Len(written))

\* C15, reached: the application called ping before anything was written
\* (the PING is the second frame passed to the sink), and the transport
\* holds the SETTINGS frame first and that PING after it
C15_Reached ==
    /\ Len(sink.sent) >= 2
    /\ sink.sent[2] = PingFrame(FALSE, D2)
    /\ Len(WrittenFrames(written)) >= 2
    /\ WrittenFrames(written)[1].header.frame_type = FRAME_TYPE_SETTINGS
    /\ ~HasFlag(WrittenFrames(written)[1].header.flags, FLAG_ACK)
    /\ WrittenFrames(written)[2].header.frame_type = FRAME_TYPE_PING
    /\ WrittenFrames(written)[2].payload = D2

\* C17: the bytes accepted by the writer, then the unwritten bytes of the
\* frame being written, then the queued frames are exactly the frames passed
\* to start_send, in that order, each as its header and then its payload;
\* the bytes pending are the tail of the one frame being written, and an
\* Idle sink has nothing pending and nothing queued.
C17_SinkOrder ==
    /\ written \o sink.pending \o Encoded(sink.queue) = Encoded(sink.sent)
    /\ sink.state = "Writing"
           => LET all == Frame_write_into(sink.cur)
              IN  sink.pending = Drop(all, Len(all) - Len(sink.pending))
    /\ sink.state = "Idle" => sink.pending = <<>> /\ sink.queue = <<>>

\* C17, reached: three frames were passed to start_send, the first is
\* written, and the writer blocked in the middle of the second while the
\* third, a different frame, is queued behind it
C17_Reached ==
    /\ Len(sink.sent) = 3
    /\ sink.state = "Writing"
    /\ sink.cur = sink.sent[2]
    /\ sink.pending # <<>>
    /\ Len(sink.pending) < Len(Frame_write_into(sink.cur))
    /\ sink.queue = <<sink.sent[3]>>
    /\ sink.sent[3] # sink.sent[2]
    /\ Len(written) > Len(Frame_write_into(sink.sent[1]))

\* C18 (as the specification states it): when poll_complete returns Ready,
\* the sink is Idle: no frame is being written and none is queued.
C18_ReadyMeansFlushed ==
    sink.last = [op |-> "poll_complete", res |-> "Ready"]
        => sink.state = "Idle" /\ sink.queue = <<>>

\* the bytes the peer has sent so far: the opening, once or twice
Opened == IF nsent = 0 THEN <<>>
          ELSE IF nsent = 1 THEN CHOOSE o \in menu : TRUE
          ELSE (CHOOSE o \in menu : TRUE) \o (CHOOSE o \in menu : TRUE)

\* C16: Accept is pending as long as fewer than 24 bytes have been read,
\* and then nothing is built; it ends in ProtocolError exactly when the 24
\* bytes read differ from the client preface, and then no Connection is
\* built (nothing is passed to a sink, no frame header is read); it gives
\* the Connection exactly when the 24 bytes are the preface, having taken
\* exactly the first 24 bytes of the transport: the Connection's first
\* ReadFrame starts at offset 24, and the first frame header it reads is
\* the nine bytes the peer sent right after the preface.
C16_Preface ==
    /\ accept.got = Take(Opened, Len(accept.got))
    /\ status = "accepting"
           => /\ Len(accept.got) < PREFACE_LEN
              /\ consumed = Len(accept.got)
              /\ ret.res \in {"None", "NotReady"}
              /\ sink.sent = <<>> /\ headers = <<>>
    /\ status = "refused"
           => /\ Len(accept.got) = PREFACE_LEN
              /\ accept.got # PREFACE_BYTES
              /\ consumed = PREFACE_LEN
              /\ ret.res = "ProtocolError"
              /\ sink.sent = <<>> /\ headers = <<>>
    /\ status \in {"running", "aborted"}
           => /\ accept.got = PREFACE_BYTES
              /\ consumed >= PREFACE_LEN
              /\ stream.future.start >= PREFACE_LEN
              /\ sink.sent # <<>> /\ sink.sent[1] = SettingsSyn(<<>>)
              /\ headers # <<>>
                     => /\ headers[1].start = PREFACE_LEN
                        /\ headers[1].header =
                               ReadFrameHeader_parse(
                                   SubSeq(Opened, PREFACE_LEN + 1,
                                          PREFACE_LEN + FRAME_HEADER_LEN))

\* C16, reached: the preface arrived in pieces, Accept gave the Connection,
\* and the Connection has read the SETTINGS frame that follows the preface
C16_Reached ==
    /\ status = "running"
    /\ accept.got = PREFACE_BYTES
    /\ headers # <<>>
    /\ headers[1].start = PREFACE_LEN
    /\ headers[1].header.frame_type = FRAME_TYPE_SETTINGS
    /\ is_settings_received

\* C16, reached: 24 bytes that differ from the preface in the last byte
\* only were read, and Accept ended in ProtocolError with bytes left unread
C16_ReachedRefused ==
    /\ status = "refused"
    /\ Take(accept.got, PREFACE_LEN - 1) = Take(PREFACE_BYTES, PREFACE_LEN - 1)
    /\ ret.res = "ProtocolError"
    /\ inbound # <<>>

\* C19: for the frame f passed to the sink, the payload_length of
\* f.frame_header() is f.payload_len(); the bytes written for f and the
\* bytes still to write are 9 + f.payload_len() together; and when f is
\* written, the transport holds 9 + f.payload_len() bytes whose first three,
\* the 24-bit length, give the number of bytes after the nine of the header.
C19_PayloadLen ==
    LET f == sink.sent[1] IN
    /\ Frame_frame_header(f).payload_length = Frame_payload_len(f)
    /\ Len(written) + Len(sink.pending) = FRAME_HEADER_LEN + Frame_payload_len(f)
    /\ sink.state = "Idle"
           => /\ Len(written) = FRAME_HEADER_LEN + Frame_payload_len(f)
              /\ ReadU24(Take(written, 3)) = Len(written) - FRAME_HEADER_LEN

\* C19, reached: a HEADERS frame with a priority, a fragment and 255 bytes
\* of padding is written completely, in 9 + 2 + 1 + 5 + 255 bytes
C19_Reached ==
    /\ sink.state = "Idle"
    /\ sink.sent[1].type = "Headers"
    /\ sink.sent[1].priority = <<P1>>
    /\ sink.sent[1].padding_len = 255
    /\ sink.sent[1].fragment = <<130, 0>>
    /\ Len(written) = 272

\* what a padded frame f carries between the pad-length octet and the
\* padding: the priority or the promised stream id, and the content
Carried(f) ==
    CASE f.type = "Data" -> f.data
      [] f.type = "Headers" ->
            (IF f.priority # <<>> THEN Priority_to_bytes(f.priority[1]) ELSE <<>>)
                \o f.fragment
      [] f.type = "PushPromise" -> U32BE(f.promise_stream_id) \o f.fragment

\* C20: for a DATA, HEADERS or PUSH_PROMISE frame f passed to the sink,
\* the payload written is the pad-length octet (when padding_len is Some),
\* what f carries, and padding_len zero bytes; the reader gives no frame
\* but f itself (same stream id, flags, padding_len, priority or promised
\* id, and content without the padding); and it has given f once every
\* byte written has been read.
C20_PaddedRoundTrip ==
    LET f == sink.sent[1] IN
    f.type \in {"Data", "Headers", "PushPromise"}
        => /\ sink.state = "Idle"
                  => Drop(written, FRAME_HEADER_LEN)
                         = PadOctet(f.padding_len) \o Carried(f) \o Padding(f.padding_len)
           /\ returned \in {<<>>, <<f>>}
           /\ ~failed /\ status = "running"
           /\ (sink.state = "Idle" /\ consumed = Len(written)) => returned = <<f>>

\* C20, reached: a HEADERS frame with END_STREAM, a priority, a fragment
\* and two bytes of padding was written, and the reader has given it back
C20_Reached ==
    /\ sink.sent[1].type = "Headers"
    /\ sink.sent[1].end_stream
    /\ sink.sent[1].priority = <<P1>>
    /\ sink.sent[1].padding_len = 2
    /\ sink.sent[1].fragment = <<130, 0>>
    /\ returned = <<sink.sent[1]>>
    /\ ret.res = "Frame"

\* the padded frame types
PaddedTypes == {FRAME_TYPE_DATA, FRAME_TYPE_HEADERS, FRAME_TYPE_PUSH_PROMISE}

\* the payload bytes of a PADDED frame with header h that remain after the
\* pad-length octet and the priority or promised stream id
Remaining(h) ==
    h.payload_length - 1
        - (IF h.frame_type = FRAME_TYPE_HEADERS /\ HasFlag(h.flags, FLAG_PRIORITY) THEN 5 ELSE 0)
        - (IF h.frame_type = FRAME_TYPE_PUSH_PROMISE THEN 4 ELSE 0)

\* the headers of PADDED frames whose payload reader was entered and has
\* ended, the payload holding the pad-length octet and the fixed fields
PaddedEnded ==
    { i \in 1..Len(headers) :
        /\ headers[i].res = "Ok"
        /\ headers[i].header.frame_type \in PaddedTypes
        /\ HasFlag(headers[i].header.flags, FLAG_PADDED)
        /\ Remaining(headers[i].header) >= 0
        /\ headers[i].end # "Pending" }

\* C21 as stated: a PADDED DATA, HEADERS or PUSH_PROMISE frame with pad
\* length N ends in PROTOCOL_ERROR when N >= the remaining payload bytes,
\* and in a frame only when N is strictly smaller.
C21_PaddingStrict ==
    \A i \in PaddedEnded :
        IF headers[i].padding_len >= Remaining(headers[i].header)
        THEN headers[i].end = "ProtocolError"
        ELSE headers[i].end = "Frame"

\* C21 as amended: a PADDED DATA, HEADERS or PUSH_PROMISE frame with pad
\* length N ends in PROTOCOL_ERROR when N exceeds the remaining payload
\* bytes, and in a frame, whose content is the remaining bytes less the
\* last N, when N is smaller or equal.
C21_PaddingWithin ==
    \A i \in PaddedEnded :
        IF headers[i].padding_len > Remaining(headers[i].header)
        THEN headers[i].end = "ProtocolError"
        ELSE /\ headers[i].end = "Frame"
             /\ headers[i].frame.padding_len = headers[i].padding_len
             /\ Len(IF headers[i].frame.type = "Data" THEN headers[i].frame.data
                    ELSE headers[i].frame.fragment)
                    = Remaining(headers[i].header) - headers[i].padding_len

\* C21, reached: a HEADERS frame with a priority whose padding fills the
\* remaining two bytes is accepted, with an empty fragment
C21_Reached ==
    \E i \in PaddedEnded :
        /\ headers[i].header.frame_type = FRAME_TYPE_HEADERS
        /\ HasFlag(headers[i].header.flags, FLAG_PRIORITY)
        /\ headers[i].padding_len = 2
        /\ Remaining(headers[i].header) = 2
        /\ headers[i].end = "Frame"
        /\ headers[i].frame.fragment = <<>>

\* C21, reached: padding longer than the remaining bytes is refused
C21_ReachedRefused ==
    \E i \in PaddedEnded :
        /\ headers[i].header.frame_type = FRAME_TYPE_PUSH_PROMISE
        /\ headers[i].padding_len = 3
        /\ Remaining(headers[i].header) = 2
        /\ headers[i].end = "ProtocolError"

\* the non-ACK SETTINGS frames on stream 0 whose payload reader has ended
SettingsEnded ==
    { i \in 1..Len(headers) :
        /\ headers[i].res = "Ok"
        /\ headers[i].header.frame_type = FRAME_TYPE_SETTINGS
        /\ ~HasFlag(headers[i].header.flags, FLAG_ACK)
        /\ headers[i].end # "Pending" }

\* 2^14 <= v <= 2^24 - 1 for a u32 v
MaxFrameSizeInRange(v) == v.hi = 0 /\ 16384 <= v.lo /\ v.lo <= 16777215

\* C22: a SETTINGS_MAX_FRAME_SIZE entry with value v is accepted, as
\* MaxFrameSize(v), exactly when 2^14 <= v <= 2^24 - 1, and is rejected with
\* PROTOCOL_ERROR otherwise.
C22_MaxFrameSizeRange ==
    \A i \in SettingsEnded :
        (Len(headers[i].buf) = 6 /\ ReadU16(SubSeq(headers[i].buf, 1, 2)) = SETTINGS_MAX_FRAME_SIZE)
            => IF MaxFrameSizeInRange(ReadU32(SubSeq(headers[i].buf, 3, 6)))
               THEN /\ headers[i].end = "Frame"
                    /\ headers[i].frame.settings
                           = <<[kind |-> "MaxFrameSize",
                                value |-> ReadU32(SubSeq(headers[i].buf, 3, 6))]>>
               ELSE headers[i].end = "ProtocolError"

\* the settings the specification allows: ENABLE_PUSH 0 or 1,
\* INITIAL_WINDOW_SIZE at most 2^31 - 1, MAX_FRAME_SIZE in 2^14 .. 2^24 - 1
ValidSetting(s) ==
    CASE s.kind = "EnablePush" -> s.value.hi = 0 /\ s.value.lo <= 1
      [] s.kind = "InitialWindowSize" -> s.value.hi = 0
      [] s.kind = "MaxFrameSize" -> MaxFrameSizeInRange(s.value)
      [] OTHER -> TRUE

KnownSettingIds ==
    {SETTINGS_HEADER_TABLE_SIZE, SETTINGS_ENABLE_PUSH, SETTINGS_MAX_CONCURRENT_STREAMS,
     SETTINGS_INITIAL_WINDOW_SIZE, SETTINGS_MAX_FRAME_SIZE, SETTINGS_MAX_HEADER_LIST_SIZE}

\* what the entries of a payload are to decode to: the settings of the
\* known ids in payload order, or the error of the first entry that has one
RECURSIVE EntriesExpected(_)
EntriesExpected(buf) ==
    IF buf = <<>> THEN [res |-> "Frame", settings |-> <<>>]
    ELSE LET id == ReadU16(SubSeq(buf, 1, 2))
             v == ReadU32(SubSeq(buf, 3, 6))
         IN  IF id = SETTINGS_ENABLE_PUSH /\ ~(v.hi = 0 /\ v.lo <= 1)
             THEN [res |-> "ProtocolError", settings |-> <<>>]
             ELSE IF id = SETTINGS_INITIAL_WINDOW_SIZE /\ v.hi = 1
             THEN [res |-> "FlowControlError", settings |-> <<>>]
             ELSE IF EntriesExpected(Drop(buf, 6)).res # "Frame"
             THEN EntriesExpected(Drop(buf, 6))
             ELSE IF id \notin KnownSettingIds THEN EntriesExpected(Drop(buf, 6))
             ELSE [res |-> "Frame",
                   settings |-> <<[kind |-> CHOOSE k \in SettingKinds : SettingId(k) = id,
                                   value |-> v]>>
                                    \o EntriesExpected(Drop(buf, 6)).settings]

\* a payload without a MAX_FRAME_SIZE entry
NoMaxFrameSize(buf) ==
    \A j \in 0..((Len(buf) \div 6) - 1) :
        ReadU16(SubSeq(buf, (6 * j) + 1, (6 * j) + 2)) # SETTINGS_MAX_FRAME_SIZE

\* C23: in a non-ACK SETTINGS payload the entries of unknown ids are
\* skipped and the others are decoded in payload order, ENABLE_PUSH above 1
\* gives PROTOCOL_ERROR and INITIAL_WINDOW_SIZE above 2^31 - 1 gives
\* FLOW_CONTROL_ERROR; and the payload Setting::to_bytes gives for a valid
\* Setting s decodes to s.
C23_SettingsEntries ==
    \A i \in SettingsEnded :
        /\ NoMaxFrameSize(headers[i].buf)
              => /\ headers[i].end = EntriesExpected(headers[i].buf).res
                 /\ headers[i].end = "Frame"
                       => headers[i].frame.settings = EntriesExpected(headers[i].buf).settings
        /\ \A s \in AllSettings :
              (ValidSetting(s) /\ headers[i].buf = Setting_to_bytes(s))
                  => (headers[i].end = "Frame" /\ headers[i].frame.settings = <<s>>)

\* the first half of C23 alone
C23_SkipAndOrder ==
    \A i \in SettingsEnded :
        NoMaxFrameSize(headers[i].buf)
              => /\ headers[i].end = EntriesExpected(headers[i].buf).res
                 /\ headers[i].end = "Frame"
                       => headers[i].frame.settings = EntriesExpected(headers[i].buf).settings

\* the low 31 bits of four big-endian bytes
Low31(b) == ((b[1] % 128) * 16777216) + (b[2] * 65536) + (b[3] * 256) + b[4]

\* C24: a WINDOW_UPDATE header with a payload_length other than 4 is
\* rejected with FRAME_SIZE_ERROR; with 4, on stream 0 or any other stream,
\* the payload's low 31 bits are the increment: 0 is rejected with
\* PROTOCOL_ERROR, anything else gives the frame with that increment and
\* the header's stream id.
C24_WindowUpdate ==
    \A i \in 1..Len(headers) :
        headers[i].header.frame_type = FRAME_TYPE_WINDOW_UPDATE
            => IF headers[i].header.payload_length # 4
               THEN headers[i].res = "FrameSizeError" /\ headers[i].end = "FrameSizeError"
               ELSE /\ headers[i].res = "Ok"
                    /\ headers[i].end # "Pending"
                          => IF Low31(headers[i].buf) = 0
                             THEN headers[i].end = "ProtocolError"
                             ELSE /\ headers[i].end = "Frame"
                                  /\ headers[i].frame
                                        = [type |-> "WindowUpdate",
                                           stream_id |-> headers[i].header.stream_id,
                                           window_size_increment |-> Low31(headers[i].buf)]

\* C24, reached: a WINDOW_UPDATE on stream 0 with the reserved bit set
\* and the low bits 1 was read as an increment of 1, and the frame after it
\* was read too
C24_Reached ==
    /\ Len(headers) = 2
    /\ headers[1].header.frame_type = FRAME_TYPE_WINDOW_UPDATE
    /\ headers[1].header.stream_id = 0
    /\ headers[1].buf = <<128, 0, 0, 1>>
    /\ headers[1].end = "Frame"
    /\ headers[1].frame.window_size_increment = 1
    /\ headers[2].end = "Frame"

\* the error kinds of RFC 7540, section 7, in the order of their codes
ErrorKindsByCode ==
    <<"NoError", "ProtocolError", "InternalError", "FlowControlError", "SettingsTimeout",
      "StreamClosed", "FrameSizeError", "RefusedStream", "Cancel", "CompressionError",
      "ConnectError", "EnhanceYourCalm", "InadequateSecurity", "Http11Required">>

\* the kind a four-byte wire code is to map to
KindOfCode(b) ==
    IF b[1] = 0 /\ b[2] = 0 /\ b[3] = 0 /\ b[4] < Len(ErrorKindsByCode)
    THEN ErrorKindsByCode[b[4] + 1]
    ELSE "InternalError"

\* C25: the error of a decoded RST_STREAM or GOAWAY frame, which is
\* Error::from_code of the four code bytes, is the RFC 7540 kind of the
\* code for 0x0 .. 0xd and INTERNAL_ERROR for every other code.
C25_FromCode ==
    \A i \in 1..Len(headers) :
        headers[i].end = "Frame"
            => /\ headers[i].frame.type = "RstStream"
                    => headers[i].frame.error = KindOfCode(headers[i].buf)
               /\ headers[i].frame.type = "Goaway"
                    => headers[i].frame.error = KindOfCode(SubSeq(headers[i].buf, 5, 8))

\* C25, reached: the code 0xd was read as HTTP_1_1_REQUIRED
C25_Reached ==
    \E i \in 1..Len(headers) :
        /\ headers[i].end = "Frame"
        /\ headers[i].frame.type = "RstStream"
        /\ headers[i].buf = <<0, 0, 0, 13>>
        /\ headers[i].frame.error = "Http11Required"

\* the number of origin classes StreamId puts id in
OriginClasses(id) ==
    (IF is_connection_control_stream(id) THEN 1 ELSE 0)
        + (IF is_client_initiated_stream(id) THEN 1 ELSE 0)
        + (IF is_server_initiated_stream(id) THEN 1 ELSE 0)

\* C26: every stream id read from a frame header is in exactly one origin
\* class: 0 is the connection-control stream and neither client- nor
\* server-initiated, an odd id is client-initiated, an even id other than 0
\* is server-initiated.
C26_OneOrigin ==
    \A i \in 1..Len(headers) :
        LET id == headers[i].header.stream_id IN
        /\ OriginClasses(id) = 1
        /\ is_connection_control_stream(id) <=> id = 0
        /\ is_client_initiated_stream(id) <=> id % 2 = 1
        /\ is_server_initiated_stream(id) <=> (id # 0 /\ id % 2 = 0)

\* the stream id bytes of every frame header in bytes, a sequence of
\* frames the last of which may be incomplete, have the reserved bit clear
RECURSIVE ReservedBitClear(_)
ReservedBitClear(bytes) ==
    IF Len(bytes) < 6 THEN TRUE
    ELSE /\ bytes[6] < 128
         /\ Len(bytes) >= FRAME_HEADER_LEN
               => ReservedBitClear(Drop(bytes, FRAME_HEADER_LEN + ReadU24(Take(bytes, 3))))

\* a stream id of 31 bits: bit 31 is zero
Is31Bit(id) == 0 <= id /\ id <= 2147483647

\* the stream ids a decoded frame holds besides that of its header
HeldIds(f) ==
    CASE f.type = "PushPromise" -> {f.promise_stream_id}
      [] f.type = "Goaway" -> {f.last_stream_id}
      [] f.type = "Priority" -> {f.priority.stream_dependency}
      [] f.type = "Headers" -> {f.priority[j].stream_dependency : j \in DOMAIN f.priority}
      [] OTHER -> {}

\* C27: the stream id of every frame header read is the low 31 bits of its
\* four bytes, and every stream id in a decoded frame (header, promised
\* id, last stream id, dependency) has bit 31 zero; so the frame headers
\* written for these frames have the reserved bit zero; and StreamId::new
\* of the four bytes read as a u32 gives an internal error when bit 31 is
\* set and the id otherwise.
C27_ReservedBit ==
    /\ \A i \in 1..Len(headers) :
          /\ headers[i].header.stream_id = Low31(SubSeq(headers[i].raw, 6, 9))
          /\ Is31Bit(headers[i].header.stream_id)
          /\ StreamId_new(ReadU32(SubSeq(headers[i].raw, 6, 9)))
                = IF headers[i].raw[6] >= 128 THEN [res |-> "InternalError", id |-> 0]
                  ELSE [res |-> "Ok", id |-> headers[i].header.stream_id]
    /\ \A k \in 1..Len(returned) :
          /\ "stream_id" \in DOMAIN returned[k] => Is31Bit(returned[k].stream_id)
          /\ \A id \in HeldIds(returned[k]) : Is31Bit(id)
    /\ ReservedBitClear(written)

\* C27, reached: a DATA frame whose header has the reserved bit set was
\* read as a frame of stream 1 and written again with the bit clear
C27_Reached ==
    /\ Len(headers) >= 1
    /\ headers[1].raw = <<0, 0, 1, 0, 0, 128, 0, 0, 1>>
    /\ returned # <<>>
    /\ returned[1].type = "Data"
    /\ returned[1].stream_id = 1
    /\ sink.state = "Idle"
    /\ Take(written, 10) = <<0, 0, 1, 0, 0, 0, 0, 0, 1, 5>>

\* C28: a frame that is decoded has taken exactly 9 + payload_length bytes
\* of the transport, 9 of them for its header; the reader of the next frame
\* starts where it ended, and what it reads as the next header is the
\* header of the frame the peer sent next (a PING); and when the frames the
\* peer sent are all decoded, every byte has been taken.
C28_ExactConsumption ==
    /\ \A i \in 1..Len(headers) :
          /\ headers[i].at = headers[i].start + FRAME_HEADER_LEN
          /\ headers[i].end = "Frame"
                => /\ headers[i].done
                         = headers[i].start + FRAME_HEADER_LEN + headers[i].header.payload_length
                   /\ i < Len(headers)
                         => /\ headers[i + 1].start = headers[i].done
                            /\ i = 1 => headers[i + 1].raw = Take(RawPing, FRAME_HEADER_LEN)
                   /\ i = Len(headers) /\ ret.res = "Frame"
                         => /\ stream.future.stage = "Header"
                            /\ stream.future.start = headers[i].done
                            /\ consumed = headers[i].done
    /\ (Len(headers) = 2 /\ headers[1].end = "Frame" /\ headers[2].end = "Frame")
          => (wire = <<>> /\ inbound = <<>>
                /\ consumed = (2 * FRAME_HEADER_LEN) + headers[1].header.payload_length
                                  + headers[2].header.payload_length)

\* C28, reached: a padded HEADERS frame with a priority and the PING after
\* it are decoded, the bytes arriving one at a time or in pieces
C28_Reached ==
    /\ Len(headers) = 2
    /\ headers[1].header.frame_type = FRAME_TYPE_HEADERS
    /\ HasFlag(headers[1].header.flags, FLAG_PRIORITY)
    /\ headers[1].padding_len = 1
    /\ headers[1].header.payload_length = 9
    /\ headers[1].end = "Frame"
    /\ headers[2].end = "Frame"
    /\ headers[2].frame.type = "Ping"
    /\ consumed = 35

\* the items a handled frame puts on the channel of its stream
ItemsOf(frame) ==
    CASE frame.type = "Headers" ->
            <<[type |-> "Header", fields |-> Header_decode(frame.fragment).fields]>>
      [] frame.type = "Data" ->
            <<[type |-> "Data", data |-> frame.data]>>
                \o (IF frame.end_stream THEN <<[type |-> "EndStream"]>> ELSE <<>>)
      [] OTHER -> <<>>

\* the items of the frames of stream s that handle_frame has handled, in
\* the order the frames arrived
RECURSIVE ItemsFor(_, _)
ItemsFor(s, log) ==
    IF log = <<>> THEN <<>>
    ELSE (IF Head(log).res = "Ok" /\ Head(log).frame.type \in {"Headers", "Data"}
             /\ Head(log).frame.stream_id = s
          THEN ItemsOf(Head(log).frame) ELSE <<>>)
             \o ItemsFor(s, Tail(log))

\* C29: a stream s has a channel from the HEADERS frame that opened it;
\* the header item is the first item on it, and is there whenever the
\* Event::Stream of s is queued or returned; there is exactly one
\* Event::Stream for s; and the channel holds the items of the frames of
\* s in arrival order, the data of a DATA frame before its end-of-stream.
C29_StreamItemsInOrder ==
    /\ DOMAIN channels = streams
    /\ \A e \in {(returned \o events)[k] : k \in 1..Len(returned \o events)} :
          e.type = "Stream" => e.id \in streams
    /\ \A s \in streams :
          /\ Count(returned \o events, StreamEvent(s)) = 1
          /\ channels[s] # <<>>
          /\ channels[s][1].type = "Header"
          /\ channels[s] = ItemsFor(s, calls)

\* C29, reached: stream 1 was opened, its event returned, and two DATA
\* frames, the second with END_STREAM, were forwarded after the header
C29_Reached ==
    /\ 1 \in streams
    /\ StreamEvent(1) \in {returned[k] : k \in 1..Len(returned)}
    /\ Len(channels[1]) = 4
    /\ channels[1][1].type = "Header"
    /\ channels[1][2] = [type |-> "Data", data |-> <<6, 7>>]
    /\ channels[1][3] = [type |-> "Data", data |-> <<5>>]
    /\ channels[1][4] = [type |-> "EndStream"]

\* C30: a DATA frame handled after the peer's SETTINGS for a stream with
\* no entry in the stream registry does not end the connection task: the
\* call neither panics nor fails, the registry is left alone, and an
\* RST_STREAM for that stream is queued on the sink.
C30_UnknownStreamData ==
    \A i \in 1..Len(calls) :
        (/\ calls[i].frame.type = "Data"
         /\ calls[i].before.is_settings_received
         /\ calls[i].frame.stream_id \notin calls[i].before.streams)
        => /\ calls[i].res = "Ok"
           /\ calls[i].after.streams = calls[i].before.streams
           /\ \E k \in 1..Len(calls[i].after.sink) :
                 /\ k > Len(calls[i].before.sink)
                 /\ calls[i].after.sink[k].type = "RstStream"
                 /\ calls[i].after.sink[k].stream_id = calls[i].frame.stream_id

\* the log entries of the frame headers whose frame was decoded
DecodedHeaders == SelectSeq(headers, LAMBDA h : h.end = "Frame")

\* the events the handle_frame calls of a log have queued, in call order
RECURSIVE PushedBy(_)
PushedBy(log) ==
    IF log = <<>> THEN <<>>
    ELSE SubSeq(Head(log).after.events, Len(Head(log).before.events) + 1,
                Len(Head(log).after.events)) \o PushedBy(Tail(log))

\* a Connection as Connection::new leaves it, with nothing to read and a
\* writer that accepts nothing
FreshConnection ==
    [is_settings_received |-> FALSE, events |-> <<>>, streams |-> {},
     next_peer_stream_id |-> 1,
     sink |-> FrameSink_start_send(FrameSink_new, SettingsSyn(<<>>)),
     stream |-> [max_frame_size |-> DEFAULT_MAX_FRAME_SIZE,
                 future |-> NewReadFrame(DEFAULT_MAX_FRAME_SIZE, 0)],
     channels |-> <<>>, inbound |-> <<>>, written |-> <<>>, wcap |-> 0,
     consumed |-> 0, failed |-> FALSE, calls |-> <<>>, headers |-> <<>>]

\* the events queued when the frames of a trace are handled one after the
\* other (a call that gives an error leaves the connection as it was, and
\* the next poll goes on with the next frame), with nothing returned,
\* written or sent by the application in between
RECURSIVE Replay(_, _)
Replay(h, frames) ==
    IF frames = <<>> THEN h.c.events
    ELSE Replay(handle_frame(h.c, Head(frames)), Tail(frames))

\* C31: the frames are handled one at a time in wire order: each header
\* read starts where the frame before it ended, the i-th handle_frame call
\* is for the i-th frame decoded, and it is made only when every event
\* queued before has been returned.  The events returned, followed by
\* those still queued, are the events the calls queued, in call order; and
\* they are a function of the frames of the trace alone, whatever the
\* pieces the bytes arrived in, the bytes the writer accepted, and the
\* pings of the application.
C31_WireOrderEvents ==
    /\ \A j \in 1..Len(headers) :
          headers[j].start = (IF j = 1 THEN 0 ELSE headers[j - 1].done)
    /\ Len(calls) = Len(DecodedHeaders)
    /\ \A i \in 1..Len(calls) :
          /\ calls[i].frame = DecodedHeaders[i].frame
          /\ calls[i].consumed = DecodedHeaders[i].done
          /\ calls[i].before.events = <<>>
    /\ returned \o events = PushedBy(calls)
    /\ returned \o events =
          Replay(Handled(FreshConnection, "Ok"), [i \in 1..Len(calls) |-> calls[i].frame])

\* C31, reached: SETTINGS, a HEADERS frame for stream 1, one for stream 3
\* and a DATA frame were handled, and the events of the two streams were
\* returned in the order of the frames
C31_Reached ==
    /\ Len(calls) = 4
    /\ calls[2].frame.type = "Headers" /\ calls[2].frame.stream_id = 1
    /\ calls[3].frame.type = "Headers" /\ calls[3].frame.stream_id = 3
    /\ returned = <<StreamEvent(1), StreamEvent(3)>>

\* a header of a known type whose payload_length is less than the length
\* of the fields that its type and flags make mandatory
TooShort(h) ==
    LET pad == IF HasFlag(h.flags, FLAG_PADDED) THEN 1 ELSE 0 IN
    \/ h.frame_type = FRAME_TYPE_GOAWAY /\ h.payload_length < 8
    \/ h.frame_type = FRAME_TYPE_PUSH_PROMISE /\ h.payload_length < 4 + pad
    \/ h.frame_type \in {FRAME_TYPE_DATA, FRAME_TYPE_HEADERS} /\ h.payload_length < pad
    \/ /\ h.frame_type = FRAME_TYPE_HEADERS /\ HasFlag(h.flags, FLAG_PRIORITY)
       /\ h.payload_length < 5 + pad

\* the number of bytes taken from the transport after the i-th header
TakenAfter(i) ==
    (IF i = Len(headers) THEN consumed ELSE headers[i + 1].start) - headers[i].at

\* C32: a header that passes the checks of the header and whose
\* payload_length is too short for the mandatory fields of its type ends
\* in an error value, not in a panic and not in a frame, and no more than
\* payload_length bytes are taken from the transport after it.
C32_ShortPayloadRefused ==
    \A i \in 1..Len(headers) :
        (headers[i].res = "Ok" /\ TooShort(headers[i].header))
        => /\ headers[i].end \notin {"Abort", "Frame"}
           /\ TakenAfter(i) <= headers[i].header.payload_length

\* C33: read_headers_frame on a well-formed HEADERS payload with the
\* PRIORITY flag gives a frame: the 5-byte priority, the fragment of
\* payload_length - 5 - (1 + pad length if PADDED) bytes, and the padding.
C33_HeadersWithPriority ==
    \A i \in 1..Len(calls) :
        (calls[i].op = "read_headers_frame" /\ HasFlag(menu.header.flags, FLAG_PRIORITY))
        => /\ calls[i].out.res = "Ok"
           /\ calls[i].out.frame = menu.want

\* without the PRIORITY flag the payload decodes to its parts
C33_HeadersWithoutPriority ==
    \A i \in 1..Len(calls) :
        (calls[i].op = "read_headers_frame" /\ ~HasFlag(menu.header.flags, FLAG_PRIORITY))
        => /\ calls[i].out.res = "Ok"
           /\ calls[i].out.frame = menu.want

\* the payload length of the frame type of a header
FixedLen(h) == IF h.frame_type = FRAME_TYPE_PRIORITY THEN 5 ELSE 4

\* C34: on a PRIORITY or RST_STREAM header and its payload, from_vec and
\* the streaming decoder both accept exactly when the stream id is not 0
\* and the payload has 5 bytes (PRIORITY) or 4 (RST_STREAM), and then give
\* the same frame; both give FRAME_SIZE_ERROR for another length on a
\* non-zero stream, and PROTOCOL_ERROR for stream 0 with the right length.
C34_OneShotAgrees ==
    \A i \in 1..Len(calls) :
        calls[i].op = "from_vec"
        => LET ok == menu.header.stream_id # 0 /\ Len(menu.payload) = FixedLen(menu.header)
           IN  /\ (calls[i].out.res = "Ok") = ok
               /\ (calls[i].streamed.res = "Ok") = ok
               /\ ok => calls[i].out.frame = calls[i].streamed.frame
               /\ (menu.header.stream_id # 0 /\ Len(menu.payload) # FixedLen(menu.header))
                    => /\ calls[i].out.res = "FrameSizeError"
                       /\ calls[i].streamed.res = "FrameSizeError"
               /\ (menu.header.stream_id = 0 /\ Len(menu.payload) = FixedLen(menu.header))
                    => /\ calls[i].out.res = "ProtocolError"
                       /\ calls[i].streamed.res = "ProtocolError"

\* the streaming decoders alone do as C34 says
C34_Streaming ==
    \A i \in 1..Len(calls) :
        calls[i].op = "from_vec"
        => LET ok == menu.header.stream_id # 0 /\ Len(menu.payload) = FixedLen(menu.header)
           IN  /\ (calls[i].streamed.res = "Ok") = ok
               /\ (menu.header.stream_id # 0 /\ Len(menu.payload) # FixedLen(menu.header))
                    => calls[i].streamed.res = "FrameSizeError"
               /\ (menu.header.stream_id = 0 /\ Len(menu.payload) = FixedLen(menu.header))
                    => calls[i].streamed.res = "ProtocolError"

\* C35: the k-th call of next() on the fields of a header gives the k-th
\* decoded field, name and value byte for byte, as long as k is at most
\* the number of decoded fields, and None from then on.
C35_FieldsAsDecoded ==
    menu \in FieldsInputs
    => \A k \in 1..Len(returned) :
          returned[k] = IF k <= Len(menu.decoded)
                        THEN [type |-> "Some", name |-> menu.decoded[k].name,
                              value |-> menu.decoded[k].value]
                        ELSE [type |-> "None"]

\* C35, reached: a field with an empty name and an empty value, then a
\* field with a two-byte name and an empty value, then None twice
C35_Reached ==
    /\ menu \in FieldsInputs
    /\ menu.decoded = <<[name |-> <<>>, value |-> <<>>],
                        [name |-> <<98, 99>>, value |-> <<>>]>>
    /\ Len(returned) = 4
    /\ returned[1] = [type |-> "Some", name |-> <<>>, value |-> <<>>]
    /\ returned[2] = [type |-> "Some", name |-> <<98, 99>>, value |-> <<>>]
    /\ returned[3] = [type |-> "None"]
    /\ returned[4] = [type |-> "None"]

\* C36: from_bytes(to_bytes(p)) = p for a priority p with a 31-bit
\* dependency and a weight of 1..256, and to_bytes(from_bytes(b)) = b for
\* five bytes b; the flag is bit 31 of the first four bytes, the
\* dependency their low 31 bits, the fifth byte the weight minus one;
\* Weight::new(w) succeeds exactly for 1 <= w <= 256, and as_u16 gives w.
C36_PriorityRoundTrip ==
    \A i \in 1..Len(calls) :
        /\ calls[i].op = "to_bytes"
           => /\ calls[i].back = menu.priority
              /\ Len(calls[i].bytes) = 5
              /\ ReadU32(SubSeq(calls[i].bytes, 1, 4)) =
                    [hi |-> IF menu.priority.is_exclusive THEN 1 ELSE 0,
                     lo |-> menu.priority.stream_dependency]
              /\ calls[i].bytes[5] = menu.weight - 1
        /\ calls[i].op = "from_bytes"
           => /\ calls[i].back = menu.bytes
              /\ calls[i].priority.is_exclusive = (menu.bytes[1] >= 128)
              /\ calls[i].priority.stream_dependency = ReadU32(SubSeq(menu.bytes, 1, 4)).lo
              /\ Weight_as_u16(calls[i].priority.weight) = menu.bytes[5] + 1
        /\ calls[i].op = "weight"
           => /\ (calls[i].out.res = "Ok") = (1 <= menu.weight /\ menu.weight <= 256)
              /\ calls[i].out.res = "Ok" => calls[i].as_u16 = menu.weight
              /\ calls[i].out.res # "Ok" => calls[i].out.res = "InternalError"

\* C36, reached: an exclusive priority on the largest stream id with
\* weight 256 was written as ff ff ff ff ff and read back
C36_Reached ==
    /\ calls # <<>>
    /\ calls[1].op = "to_bytes"
    /\ menu.priority.is_exclusive
    /\ menu.priority.stream_dependency = MAX_STREAM_ID
    /\ menu.weight = 256
    /\ calls[1].bytes = <<255, 255, 255, 255, 255>>
    /\ calls[1].back = menu.priority

\* C37: every frame header is validated against the max_frame_size the
\* FrameStream has when the header is read: a payload_length above it is
\* refused with FRAME_SIZE_ERROR, and a DATA header on a non-zero stream
\* with a payload_length within it is accepted.
C37_CurrentLimit ==
    \A i \in 1..Len(headers) :
        /\ headers[i].header.payload_length > headers[i].limit
           => headers[i].res = "FrameSizeError"
        /\ (/\ headers[i].header.payload_length <= headers[i].limit
            /\ headers[i].header.frame_type = FRAME_TYPE_DATA
            /\ headers[i].header.stream_id # 0)
           => headers[i].res = "Ok"

\* from the second header after set_max_frame_size on, the new limit is
\* the one in force
C37_FromSecondFrame ==
    \A i \in 2..Len(headers) :
        headers[i - 1].limit = headers[i].limit
        => headers[i].max_frame_size = headers[i].limit

\* the payload-length constraint of a PRIORITY, RST_STREAM or SETTINGS
\* header: 5 bytes, 4 bytes, a multiple of 6; and within max_frame_size
LengthValid(e) ==
    /\ e.header.payload_length <= e.max_frame_size
    /\ CASE e.header.frame_type = FRAME_TYPE_PRIORITY -> e.header.payload_length = 5
         [] e.header.frame_type = FRAME_TYPE_RST_STREAM -> e.header.payload_length = 4
         [] OTHER -> e.header.payload_length % 6 = 0

\* the stream-id constraint: stream 0 for SETTINGS, another one for
\* PRIORITY and RST_STREAM
StreamValid(e) ==
    (e.header.frame_type = FRAME_TYPE_SETTINGS) = (e.header.stream_id = 0)

\* C38: a PRIORITY, RST_STREAM or SETTINGS header whose payload_length
\* violates the constraint of its type is refused with FRAME_SIZE_ERROR,
\* whatever its stream id; one with a valid length and a wrong stream id
\* is refused with PROTOCOL_ERROR; one with both valid passes the header
\* checks.
C38_LengthBeforeStream ==
    \A i \in 1..Len(headers) :
        headers[i].header.frame_type
            \in {FRAME_TYPE_PRIORITY, FRAME_TYPE_RST_STREAM, FRAME_TYPE_SETTINGS}
        => /\ ~LengthValid(headers[i]) => headers[i].res = "FrameSizeError"
           /\ (LengthValid(headers[i]) /\ ~StreamValid(headers[i]))
                => headers[i].res = "ProtocolError"
           /\ (LengthValid(headers[i]) /\ StreamValid(headers[i]))
                => headers[i].res = "Ok"

\* C38, reached: a PRIORITY header with four bytes on stream 0 was refused
\* with FRAME_SIZE_ERROR, and the stream gave that error
C38_Reached ==
    /\ Len(headers) = 1
    /\ headers[1].header.frame_type = FRAME_TYPE_PRIORITY
    /\ headers[1].header.payload_length = 4
    /\ headers[1].header.stream_id = 0
    /\ headers[1].res = "FrameSizeError"
    /\ ret.res = "FrameSizeError"

\* C39: the sink is Idle or Writing, never Done; while frames are queued
\* it is Writing; an Idle sink has nothing pending; and no start_send has
\* reached unreachable!().
C39_SinkStates ==
    /\ sink.state \in {"Idle", "Writing"}
    /\ sink.queue # <<>> => sink.state = "Writing"
    /\ sink.state = "Idle" => sink.pending = <<>> /\ sink.cur = NoFrame
    /\ sink.last.res # "Abort"

\* C39, reached: poll_complete gave a write error in the middle of a
\* frame, and the two start_send calls made after it queued their frames
\* behind the frame that failed
C39_Reached ==
    /\ failed
    /\ sink.state = "Writing"
    /\ sink.last = [op |-> "start_send", res |-> "Ready"]
    /\ Len(sink.queue) = 2
    /\ sink.pending # <<>>
    /\ written # <<>>

\* where FlushPoll can be taken, it changes the state: the poll returns an
\* event that was queued, or the writer is given bytes
PollWrites ==
    FlushPollEnabled
       => \/ events # <<>>
          \/ Connection_poll(Conn(Len(wire), WAll)).c.written # written

\* C40: as long as the connection is polled (no panic has unwound the
\* task), a sink that is writing becomes Idle with every frame handed to
\* it written completely; and a Connection::poll that returns NotReady has
\* polled the sink after the last frame its handlers handed to it: the
\* last call on the sink is that poll_complete.
C40_EventuallyWritten ==
    /\ ([](status = "running"))
          => ((sink.state = "Writing")
                 ~> (sink.state = "Idle" /\ written = Encoded(sink.sent)))
    /\ [][(pinged' = pinged /\ nsent' = nsent /\ ret'.res = "NotReady")
             => sink'.last = [op |-> "poll_complete", res |-> "Ready"]]_vars

\* C40, reached: the initial SETTINGS, a PING of the application and the
\* answer to a PING of the peer have been written completely, and the poll
\* returned NotReady
C40_Reached ==
    /\ Len(sink.sent) = 3
    /\ sink.sent[1] = SettingsSyn(<<>>)
    /\ PingFrame(FALSE, D2) \in {sink.sent[2], sink.sent[3]}
    /\ PingFrame(TRUE, D1) \in {sink.sent[2], sink.sent[3]}
    /\ sink.state = "Idle"
    /\ written = Encoded(sink.sent)
    /\ ret.res = "NotReady"

====
